---- MODULE Spec2Model ----
(***************************************************************************)
(* A model of the meh interpreter (github.com/pdk/meh).                    *)
(*                                                                         *)
(* Part 1: the tokenizer, package lex (src/lex/lex.go, operators.go).      *)
(* The lexer goroutine runs a loop of state functions (cleanSlate, word,   *)
(* number, ...).  One action of the model is one iteration of the loop of  *)
(* one state function: it reads one rune with next() (two or three in      *)
(* cleanSlate, which peeks) and does everything the iteration does with    *)
(* it.  Items go down the unbuffered channel l.items: a send completes     *)
(* only when the consumer takes the item, so the lexer takes its next      *)
(* step only once the channel is empty again.                              *)
(*                                                                         *)
(* Runes are strings: a printable rune is the string of itself, and the    *)
(* runes TLA+ cannot write have names (vt, backtick, eof, RuneError).      *)
(***************************************************************************)
EXTENDS Integers, Sequences, FiniteSets, TLC

VARIABLES
    input,          \* the runes the io.Reader holds
    readErr,        \* TRUE: the reader fails after the last rune (scanner.Err() # nil)
    pos,            \* how many runes the bufio.Scanner has handed out
    backupBuffer,   \* Lexer.backupBuffer: chan fetch, capacity 2
    current,        \* Lexer.current: the text collected for the item being scanned
    curLine,        \* Lexer.curLine
    curCol,         \* Lexer.curCol
    items,          \* Lexer.items: the unbuffered channel (the item in flight, if any)
    lastItem,       \* Lexer.lastItem
    state,          \* the stateFunc run() calls next; "nil" ends the loop, "closed" after close(l.items)
    gotPoint,       \* the local gotPoint of number()
    tokens,         \* what the consumer of l.items has received so far
    pitems,         \* Parser.items: the items Parse() is given
    nodes,          \* the nodes slicify has still to read (brackets resolved)
    pipe,           \* pipeline: pipe[j] is what job j has computed and not yet handed on
    stmts,          \* the local stmts of the outermost parseItems
    plog,           \* what the parser has reported with log.Printf
    pstate,         \* where Parse() is: "idle", "start", "running", "returned", "panic"
    ast,            \* the Node Parse() returned, if it has
    heap,           \* the Contexts allocated so far: a *Context is an index, 0 is nil
    called,         \* the last call of a Context method or of a constructor of Values, with what it returned
    enode,          \* the parser.Node Compile() is given
    program,        \* what Compile() returned: the Expr and the error
    result,         \* what invoking the Expr returned, and what it evaluated on the way
    runs,           \* every call of Compile() and of an Expr it returned, in order, with what it returned
    estate,         \* where the run is: "idle", "env", "parsed", "closures", "compiled", "failed", "panic", "invoked"
    cin,            \* the channel in of one bracket stage: the nodes its producer has still to send
    csub,           \* the channel sub: the nodes the inner parseItems has received from it
    cout,           \* the channel out: the nodes the next stage has received from it
    closed,         \* how many times close() was called on in, sub, out
    stage,          \* the goroutine of bracify or parenthify: where it is, and the node it holds
    subreader,      \* the goroutine the stage starts at an open bracket: where it is, its n and depth
    received,       \* every receive from in, in order: who received, and the node
    faults          \* the runtime panics so far (send on a closed channel, close of a closed channel, index out of range)

lexVars == <<input, readErr, pos, backupBuffer, current, curLine, curCol,
             items, lastItem, state, gotPoint, tokens>>

parseVars == <<pitems, nodes, pipe, stmts, plog, pstate, ast>>

evalVars == <<heap, called, enode, program, result, runs, estate>>

regionVars == <<cin, csub, cout, closed, stage, subreader, received, faults>>

vars == <<lexVars, parseVars, evalVars, regionVars>>

\* no bracket stage is running
regionIdle ==
    /\ cin = <<>>
    /\ csub = <<>>
    /\ cout = <<>>
    /\ closed = <<>>
    /\ stage = <<>>
    /\ subreader = <<>>
    /\ received = <<>>
    /\ faults = {}

(***************************************************************************)
(* Bounds of the model.                                                    *)
(***************************************************************************)
MaxLen == 3         \* longest input over GenAlphabet
MaxStrLen == 4      \* longest input over StrAlphabet
MaxOpLen == 2       \* longest input over OpAlphabet
MaxWsLen == 3       \* longest input over WsAlphabet
MaxItems == 12      \* the consumer records the first MaxItems items it receives
MaxCol == 24        \* columns are counted up to MaxCol

(***************************************************************************)
(* Runes.                                                                  *)
(***************************************************************************)
eof == "EOF"                \* const eof = -1
RuneError == "U+FFFD"       \* what the collected rune -1 reads back as
vt == "VT"                  \* '\v'
backtick == "BACKTICK"      \* '`'

Letters ==
    {"a", "b", "c", "d", "e", "f", "g", "h", "i", "j", "k", "l", "m", "n", "o",
     "p", "q", "r", "s", "t", "u", "v", "w", "x", "y", "z", "A", "Z", "_"}

Digits == {"0", "1", "2", "3", "4", "5", "6", "7", "8", "9"}

isLetter(ch) == ch \in Letters

isDigit(ch) == ch \in Digits

tabWidth == 4

Min(a, b) == IF a < b THEN a ELSE b

(***************************************************************************)
(* operators.go                                                            *)
(***************************************************************************)
singleRuneOperator(r) ==
    CASE r = ";" -> "Separator"
      [] r = "," -> "Comma"
      [] r = "+" -> "Plus"
      [] r = "-" -> "Minus"
      [] r = "*" -> "Mult"
      [] r = "/" -> "Div"
      [] r = "%" -> "Modulo"
      [] r = "<" -> "Less"
      [] r = ">" -> "Greater"
      [] r = "!" -> "Not"
      [] r = "." -> "Dot"
      [] r = "=" -> "Assign"
      [] r = "(" -> "LeftParen"
      [] r = ")" -> "RightParen"
      [] r = "{" -> "LeftBrace"
      [] r = "}" -> "RightBrace"
      [] OTHER -> "Error"

doubleRuneOperatorNoLessOrEqual(r1, r2) ==
    IF r1 = ">" /\ r2 = ">" THEN "Pipe"
    ELSE IF r1 = ">" /\ r2 = "=" THEN "GreaterOrEqual"
    ELSE IF r2 = "=" /\ r1 = "!" THEN "NotEqual"
    ELSE IF r2 = "=" /\ r1 = "=" THEN "Equal"
    ELSE IF r2 = "=" /\ r1 = ":" THEN "Assign"
    ELSE IF r2 = "=" /\ r1 = "+" THEN "PlusAssign"
    ELSE IF r2 = "=" /\ r1 = "-" THEN "MinusAssign"
    ELSE IF r2 = "=" /\ r1 = "*" THEN "MultAssign"
    ELSE IF r2 = "=" /\ r1 = "/" THEN "DivAssign"
    ELSE IF r2 = "=" /\ r1 = "%" THEN "ModuloAssign"
    ELSE IF r1 = "|" /\ r2 = "|" THEN "Or"
    ELSE IF r1 = "&" /\ r2 = "&" THEN "And"
    ELSE "Error"

doubleRuneOperator(r1, r2) ==
    IF r1 = ">" /\ r2 = ">" THEN "Pipe"
    ELSE IF r1 = ">" /\ r2 = "=" THEN "GreaterOrEqual"
    ELSE IF r2 = "=" /\ r1 = "!" THEN "NotEqual"
    ELSE IF r2 = "=" /\ r1 = "=" THEN "Equal"
    ELSE IF r2 = "=" /\ r1 = ":" THEN "Assign"
    ELSE IF r2 = "=" /\ r1 = "+" THEN "PlusAssign"
    ELSE IF r2 = "=" /\ r1 = "-" THEN "MinusAssign"
    ELSE IF r2 = "=" /\ r1 = "*" THEN "MultAssign"
    ELSE IF r2 = "=" /\ r1 = "/" THEN "DivAssign"
    ELSE IF r2 = "=" /\ r1 = "%" THEN "ModuloAssign"
    ELSE IF r2 = "=" /\ r1 = "<" THEN "LessOrEqual"
    ELSE IF r1 = "|" /\ r2 = "|" THEN "Or"
    ELSE IF r1 = "&" /\ r2 = "&" THEN "And"
    ELSE "Error"

(***************************************************************************)
(* Items.                                                                  *)
(***************************************************************************)
Item(t, s, line, col) == [Type |-> t, Value |-> s, Line |-> line, Column |-> col]

\* the zero Item: Type 0 is EOF
ZeroItem == Item("EOF", <<>>, 0, 0)

(***************************************************************************)
(* Lexer.next, Lexer.backup, Lexer.peek: next() on a reader that has       *)
(* handed out p runes and whose pushback buffer is buf.                    *)
(***************************************************************************)
fetch(val, err) == [val |-> val, err |-> err]

next(buf, p) ==
    IF buf # <<>> THEN Head(buf)
    ELSE IF p < Len(input) THEN fetch(input[p + 1], FALSE)
    ELSE fetch(eof, readErr)

nextBufKeeps(buf) == buf

nextBuf(buf) == IF buf # <<>> THEN Tail(buf) ELSE buf

nextPos(buf, p) == IF buf = <<>> /\ p < Len(input) THEN p + 1 ELSE p

\* backup blocks when the buffer already holds two fetches
canBackup(buf) == Len(buf) < 2

backup(buf, r, err) == Append(buf, fetch(r, err))

\* collect(r): WriteRune of the rune -1 writes one invalid rune, which reads
\* back as U+FFFD
collect(s, r) == Append(s, IF r = eof THEN RuneError ELSE r)

(***************************************************************************)
(* Lexer.advancePos                                                        *)
(***************************************************************************)
RECURSIVE advanceFrom(_, _, _, _, _)
advanceFrom(line, col, last, s, i) ==
    IF i > Len(s) THEN [line |-> line, col |-> Min(col, MaxCol)]
    ELSE LET r == s[i]
             c1 == IF r = "\t" THEN (col + 1) + ((col + 1) % tabWidth) ELSE col
             brk == r = "\n" \/ (r = "\r" /\ last # "\n")
             l2 == IF brk THEN line + 1 ELSE line
             c2 == IF brk THEN 0 ELSE c1
         IN  advanceFrom(l2, c2 + 1, r, s, i + 1)

advancePos(line, col, s) == advanceFrom(line, col, "", s, 1)

(***************************************************************************)
(* Lexer.emit, Lexer.emitError: the item carries the position before its   *)
(* text, the position advances over the text, and current is reset; rest   *)
(* is what the same iteration collects after the emit.                     *)
(***************************************************************************)
emit(t, s, rest) ==
    /\ items' = <<Item(t, s, curLine, curCol)>>
    /\ lastItem' = IF t \in {"HashComment", "SlashComment"}
                   THEN lastItem
                   ELSE Item(t, s, curLine, curCol)
    /\ curLine' = advancePos(curLine, curCol, s).line
    /\ curCol' = advancePos(curLine, curCol, s).col
    /\ current' = rest

emitError(s, rest) ==
    /\ items' = <<Item("Error", s, curLine, curCol)>>
    /\ lastItem' = lastItem
    /\ curLine' = advancePos(curLine, curCol, s).line
    /\ curCol' = advancePos(curLine, curCol, s).col
    /\ current' = rest

\* an iteration that emits nothing and leaves s collected
collected(s) ==
    /\ current' = s
    /\ UNCHANGED <<items, lastItem, curLine, curCol>>

reader(buf, p) == backupBuffer' = buf /\ pos' = p

goto(s) == state' = s /\ gotPoint' = FALSE

(***************************************************************************)
(* Lexer.maybeEmitSeparator                                                *)
(***************************************************************************)
SeparatorAfterNoBrace ==
    {"Ident", "Number", "DoubleQuoteString", "SingleQuoteString",
     "BacktickString", "RightParen"}

SeparatorAfterToo ==
    {"Ident", "Number", "DoubleQuoteString", "SingleQuoteString",
     "BacktickString", "RightParen", "RightBrace", "Separator"}

\* the item types after which a line break ends the statement
SeparatorAfter ==
    {"Ident", "Number", "DoubleQuoteString", "SingleQuoteString",
     "BacktickString", "RightParen", "RightBrace"}

maybeEmitSeparator(r, s) ==
    IF r \in {"\n", "\r", vt, "\f"} /\ lastItem.Type \in SeparatorAfter
    THEN emit("Separator", s, <<>>)
    ELSE collected(s)

(***************************************************************************)
(* The state functions.  Each action is one iteration of the function's    *)
(* loop; f is what next() returns, b1 and p1 the reader after it.          *)
(***************************************************************************)
Whitespace == {"\t", "\n", vt, "\f", "\r", " "}

cleanSlate ==
    /\ state = "cleanSlate"
    /\ items = <<>>
    /\ LET f == next(backupBuffer, pos)
           b1 == nextBuf(backupBuffer)
           p1 == nextPos(backupBuffer, pos)
           r == f.val
           s == collect(current, r)
           \* p := l.peek()
           g == next(b1, p1)
           p == g.val
           b2 == backup(nextBuf(b1), g.val, g.err)
           p2 == nextPos(b1, p1)
           \* the second rune of a double rune operator
           h == next(b2, p2)
       IN  IF f.err
           THEN emitError(current, <<>>) /\ reader(b1, p1) /\ goto("nil")
           ELSE IF r = eof
           THEN collected(s) /\ reader(b1, p1) /\ goto("nil")
           ELSE IF r \in Whitespace
           THEN maybeEmitSeparator(r, s) /\ reader(b1, p1) /\ goto("whitespace")
           ELSE IF r = "#"
           THEN collected(s) /\ reader(b1, p1) /\ goto("hashComment")
           ELSE IF r = "\""
           THEN collected(s) /\ reader(b1, p1) /\ goto("doubleQuoteString")
           ELSE IF r = "'"
           THEN collected(s) /\ reader(b1, p1) /\ goto("singleQuoteString")
           ELSE IF r = backtick
           THEN collected(s) /\ reader(b1, p1) /\ goto("backtickString")
           ELSE IF r \in Digits
           THEN collected(s) /\ reader(b1, p1) /\ goto("number")
           ELSE /\ canBackup(nextBuf(b1))
                /\ IF r = "/" /\ p = "/"
                   THEN collected(s) /\ reader(b2, p2) /\ goto("slashComment")
                   ELSE IF doubleRuneOperator(r, p) # "Error"
                   THEN IF h.err
                        THEN /\ emitError(s, <<>>)
                             /\ reader(nextBuf(b2), nextPos(b2, p2))
                             /\ goto("nil")
                        ELSE /\ emit(doubleRuneOperator(r, p), collect(s, h.val), <<>>)
                             /\ reader(nextBuf(b2), nextPos(b2, p2))
                             /\ goto("cleanSlate")
                   ELSE IF singleRuneOperator(r) # "Error"
                   THEN emit(singleRuneOperator(r), s, <<>>) /\ reader(b2, p2) /\ goto("cleanSlate")
                   ELSE IF isLetter(r)
                   THEN collected(s) /\ reader(b2, p2) /\ goto("word")
                   ELSE emitError(s, <<>>) /\ reader(b2, p2) /\ goto("nil")
    /\ UNCHANGED <<input, readErr, tokens, parseVars, evalVars, regionVars>>

\* the switch of word() on the collected text
wordType(s) ==
    CASE s = <<"n", "i", "l">> -> "Nil"
      [] s = <<"f", "n">> -> "Function"
      [] s = <<"t", "r", "u", "e">> -> "True"
      [] s = <<"f", "a", "l", "s", "e">> -> "False"
      [] s = <<"r", "e", "t", "u", "r", "n">> -> "Return"
      [] s = <<"c", "o", "n", "t", "i", "n", "u", "e">> -> "Continue"
      [] s = <<"b", "r", "e", "a", "k">> -> "Break"
      [] OTHER -> "Ident"

word ==
    /\ state = "word"
    /\ items = <<>>
    /\ LET f == next(backupBuffer, pos)
           b1 == nextBuf(backupBuffer)
           p1 == nextPos(backupBuffer, pos)
           r == f.val
       IN  IF f.err
           THEN emitError(current, <<>>) /\ reader(b1, p1) /\ goto("nil")
           ELSE IF isLetter(r) \/ isDigit(r)
           THEN collected(collect(current, r)) /\ reader(b1, p1) /\ goto("word")
           ELSE /\ canBackup(b1)
                /\ emit(wordType(current), current, <<>>)
                /\ reader(backup(b1, r, FALSE), p1)
                /\ goto("cleanSlate")
    /\ UNCHANGED <<input, readErr, tokens, parseVars, evalVars, regionVars>>

number ==
    /\ state = "number"
    /\ items = <<>>
    /\ LET f == next(backupBuffer, pos)
           b1 == nextBuf(backupBuffer)
           p1 == nextPos(backupBuffer, pos)
           r == f.val
       IN  IF f.err \/ isLetter(r)
           THEN emitError(current, <<>>) /\ reader(b1, p1) /\ goto("nil")
           ELSE IF r \in Digits \/ (r = "." /\ ~gotPoint)
           THEN /\ collected(collect(current, r))
                /\ reader(b1, p1)
                /\ state' = "number"
                /\ gotPoint' = (r = ".")
           ELSE /\ canBackup(b1)
                /\ emit("Number", current, <<>>)
                /\ reader(backup(b1, r, FALSE), p1)
                /\ goto("cleanSlate")
    /\ UNCHANGED <<input, readErr, tokens, parseVars, evalVars, regionVars>>

whitespace ==
    /\ state = "whitespace"
    /\ items = <<>>
    /\ LET f == next(backupBuffer, pos)
           b1 == nextBuf(backupBuffer)
           p1 == nextPos(backupBuffer, pos)
           n == f.val
       IN  IF f.err
           THEN emitError(current, <<>>) /\ reader(b1, p1) /\ goto("nil")
           ELSE IF n \in {"\n", "\r", vt, "\f", "\t", " "}
           THEN /\ maybeEmitSeparator(n, collect(current, n))
                /\ reader(b1, p1)
                /\ goto("whitespace")
           ELSE \* count how much space we ate
                /\ canBackup(b1)
                /\ curLine' = advancePos(curLine, curCol, current).line
                /\ curCol' = advancePos(curLine, curCol, current).col
                /\ current' = <<>>
                /\ UNCHANGED <<items, lastItem>>
                /\ reader(backup(b1, n, FALSE), p1)
                /\ goto("cleanSlate")
    /\ UNCHANGED <<input, readErr, tokens, parseVars, evalVars, regionVars>>

hashComment ==
    /\ state = "hashComment"
    /\ items = <<>>
    /\ LET f == next(backupBuffer, pos)
           b1 == nextBuf(backupBuffer)
           p1 == nextPos(backupBuffer, pos)
           n == f.val
       IN  IF f.err
           THEN emitError(current, <<>>) /\ reader(b1, p1) /\ goto("nil")
           ELSE IF n \in {"\n", "\r", eof}
           THEN /\ emit("HashComment", collect(current, n), <<>>)
                /\ reader(b1, p1)
                /\ goto("cleanSlate")
           ELSE collected(collect(current, n)) /\ reader(b1, p1) /\ goto("hashComment")
    /\ UNCHANGED <<input, readErr, tokens, parseVars, evalVars, regionVars>>

slashComment ==
    /\ state = "slashComment"
    /\ items = <<>>
    /\ LET f == next(backupBuffer, pos)
           b1 == nextBuf(backupBuffer)
           p1 == nextPos(backupBuffer, pos)
           n == f.val
       IN  IF f.err
           THEN emitError(current, <<>>) /\ reader(b1, p1) /\ goto("nil")
           ELSE IF n \in {"\n", "\r", eof}
           THEN /\ emit("SlashComment", collect(current, n), <<>>)
                /\ reader(b1, p1)
                /\ goto("cleanSlate")
           ELSE collected(collect(current, n)) /\ reader(b1, p1) /\ goto("slashComment")
    /\ UNCHANGED <<input, readErr, tokens, parseVars, evalVars, regionVars>>

\* the test n == '\\' of the two escaping string scanners
isEscapeNever(n) == FALSE

isEscape(n) == n = "\\"

doubleQuoteString ==
    /\ state = "doubleQuoteString"
    /\ items = <<>>
    /\ LET f == next(backupBuffer, pos)
           b1 == nextBuf(backupBuffer)
           p1 == nextPos(backupBuffer, pos)
           n == f.val
           \* the rune after a backslash
           g == next(b1, p1)
           b2 == nextBuf(b1)
           p2 == nextPos(b1, p1)
       IN  IF f.err
           THEN emitError(current, <<>>) /\ reader(b1, p1) /\ goto("nil")
           ELSE IF n \in {"\n", "\r", eof}
           THEN emitError(current, <<>>) /\ reader(b1, p1) /\ goto("nil")
           ELSE IF isEscape(n)
           THEN IF g.err
                THEN emitError(collect(current, n), <<>>) /\ reader(b2, p2) /\ goto("nil")
                ELSE /\ collected(collect(collect(current, n), g.val))
                     /\ reader(b2, p2)
                     /\ goto("doubleQuoteString")
           ELSE IF n = "\""
           THEN /\ emit("DoubleQuoteString", collect(current, n), <<>>)
                /\ reader(b1, p1)
                /\ goto("cleanSlate")
           ELSE collected(collect(current, n)) /\ reader(b1, p1) /\ goto("doubleQuoteString")
    /\ UNCHANGED <<input, readErr, tokens, parseVars, evalVars, regionVars>>

\* At eof the error is emitted and the function goes on: the eof rune is
\* collected and the loop reads again.
singleQuoteString ==
    /\ state = "singleQuoteString"
    /\ items = <<>>
    /\ LET f == next(backupBuffer, pos)
           b1 == nextBuf(backupBuffer)
           p1 == nextPos(backupBuffer, pos)
           n == f.val
           g == next(b1, p1)
           b2 == nextBuf(b1)
           p2 == nextPos(b1, p1)
       IN  IF f.err
           THEN emitError(current, <<>>) /\ reader(b1, p1) /\ goto("nil")
           ELSE IF n = eof
           THEN /\ emitError(current, collect(<<>>, n))
                /\ reader(b1, p1)
                /\ goto("singleQuoteString")
           ELSE IF isEscape(n)
           THEN IF g.err
                THEN emitError(collect(current, n), <<>>) /\ reader(b2, p2) /\ goto("nil")
                ELSE /\ collected(collect(collect(current, n), g.val))
                     /\ reader(b2, p2)
                     /\ goto("singleQuoteString")
           ELSE IF n = "'"
           THEN /\ emit("SingleQuoteString", collect(current, n), <<>>)
                /\ reader(b1, p1)
                /\ goto("cleanSlate")
           ELSE collected(collect(current, n)) /\ reader(b1, p1) /\ goto("singleQuoteString")
    /\ UNCHANGED <<input, readErr, tokens, parseVars, evalVars, regionVars>>

backtickString ==
    /\ state = "backtickString"
    /\ items = <<>>
    /\ LET f == next(backupBuffer, pos)
           b1 == nextBuf(backupBuffer)
           p1 == nextPos(backupBuffer, pos)
           n == f.val
       IN  IF f.err
           THEN emitError(current, <<>>) /\ reader(b1, p1) /\ goto("nil")
           ELSE IF n = eof
           THEN emitError(current, <<>>) /\ reader(b1, p1) /\ goto("nil")
           ELSE IF n = backtick
           THEN /\ emit("BacktickString", collect(current, n), <<>>)
                /\ reader(b1, p1)
                /\ goto("cleanSlate")
           ELSE collected(collect(current, n)) /\ reader(b1, p1) /\ goto("backtickString")
    /\ UNCHANGED <<input, readErr, tokens, parseVars, evalVars, regionVars>>

(***************************************************************************)
(* Lexer.run, after the loop: emit(EOF), then the deferred close(l.items). *)
(***************************************************************************)
run ==
    /\ state = "nil"
    /\ items = <<>>
    /\ emit("EOF", current, <<>>)
    /\ state' = "closed"
    /\ UNCHANGED <<input, readErr, pos, backupBuffer, gotPoint, tokens, parseVars, evalVars, regionVars>>

(***************************************************************************)
(* The consumer of the channel (for item := range c) takes the item in     *)
(* flight.  tokens records the first MaxItems items received.              *)
(***************************************************************************)
receive ==
    /\ items # <<>>
    /\ tokens' = IF Len(tokens) < MaxItems THEN Append(tokens, Head(items)) ELSE tokens
    /\ items' = <<>>
    /\ UNCHANGED <<input, readErr, pos, backupBuffer, current, curLine, curCol,
                   lastItem, state, gotPoint, parseVars, evalVars, regionVars>>

\* the stream is complete: the channel is closed and drained
complete == state = "closed" /\ items = <<>>

\* parser.noComment: the items that reach the tree builder
noCommentKeepHash(s) == SelectSeq(s, LAMBDA i : i.Type # "SlashComment")

noComment(s) == SelectSeq(s, LAMBDA i : i.Type \notin {"HashComment", "SlashComment"})

(***************************************************************************)
(* The inputs: every rune sequence up to a length over each of four        *)
(* alphabets, and the programs the specification names.                    *)
(***************************************************************************)
RECURSIVE SeqsUpTo(_, _)
SeqsUpTo(S, n) ==
    IF n = 0 THEN {<<>>}
    ELSE LET shorter == SeqsUpTo(S, n - 1)
         IN  shorter \cup {Append(s, x) : s \in shorter, x \in S}

GenAlphabet == {"a", "1", ".", " ", "\n", "\t", ";", "#", "/", "+", "$"}

StrAlphabet == {"\"", "'", backtick, "\\", "\n", "a"}

OpAlphabet ==
    {"=", "!", ">", "<", ":", "+", "-", "*", "/", "%", "|", "&",
     ";", ",", ".", "(", "}", "$"}

WsAlphabet == {"a", ")", "}", "+", "\n", vt, "\f", "\r", "\t"}

\* a;<newline>b
ProgSemicolonNewline == <<"a", ";", "\n", "b">>

\* #comment<newline>x
ProgHashCommentX == <<"#", "c", "o", "m", "m", "e", "n", "t", "\n", "x">>

\* 1.2.3
ProgTwoPoints == <<"1", ".", "2", ".", "3">>

\* x #c<newline>y
ProgCommentAfterX == <<"x", " ", "#", "c", "\n", "y">>

\* fn<newline>, true<newline>
ProgKeywords == {<<"f", "n", "\n">>, <<"t", "r", "u", "e", "\n">>, <<"n", "i", "l">>}

Programs ==
    {ProgSemicolonNewline, ProgHashCommentX, ProgTwoPoints, ProgCommentAfterX}
        \cup ProgKeywords

Inputs ==
    SeqsUpTo(GenAlphabet, MaxLen) \cup SeqsUpTo(StrAlphabet, MaxStrLen)
        \cup SeqsUpTo(OpAlphabet, MaxOpLen) \cup SeqsUpTo(WsAlphabet, MaxWsLen)
        \cup Programs

\* lex.New
Init ==
    /\ input \in Inputs
    /\ readErr \in BOOLEAN
    /\ pos = 0
    /\ backupBuffer = <<>>
    /\ current = <<>>
    /\ curLine = 1
    /\ curCol = 1
    /\ items = <<>>
    /\ lastItem = ZeroItem
    /\ state = "cleanSlate"
    /\ gotPoint = FALSE
    /\ tokens = <<>>
    /\ pitems = <<>>
    /\ nodes = <<>>
    /\ pipe = <<>>
    /\ stmts = <<>>
    /\ plog = {}
    /\ pstate = "idle"
    /\ ast = <<>>
    /\ heap = <<>>
    /\ called = <<>>
    /\ enode = <<>>
    /\ program = <<>>
    /\ result = <<>>
    /\ runs = <<>>
    /\ regionIdle
    /\ estate = "idle"

Next ==
    \/ cleanSlate
    \/ word
    \/ number
    \/ whitespace
    \/ hashComment
    \/ slashComment
    \/ doubleQuoteString
    \/ singleQuoteString
    \/ backtickString
    \/ run
    \/ receive

Spec == Init /\ [][Next]_vars

\* The lexer goroutine and its consumer are both scheduled whenever they can
\* take a step.
FairSpec == Spec /\ WF_vars(Next)

(***************************************************************************)
(* Helpers of the properties.                                              *)
(***************************************************************************)
Range(s) == {s[i] : i \in 1..Len(s)}

TypesOf(s) == [i \in 1..Len(s) |-> s[i].Type]

\* the type of the last item of s that is no comment ("none" when there is none)
RECURSIVE LastSignificantType(_)
LastSignificantType(s) ==
    IF s = <<>> THEN "none"
    ELSE IF s[Len(s)].Type \in {"HashComment", "SlashComment"}
    THEN LastSignificantType(SubSeq(s, 1, Len(s) - 1))
    ELSE s[Len(s)].Type

\* the k-th rune the lexer will read from here on
AheadVal(k) ==
    IF k <= Len(backupBuffer) THEN backupBuffer[k].val
    ELSE IF pos + (k - Len(backupBuffer)) <= Len(input)
    THEN input[pos + (k - Len(backupBuffer))]
    ELSE eof

\* the lexer is about to read a line break at a whitespace position
AtRawLineBreak(breaks) ==
    /\ state \in {"cleanSlate", "whitespace"}
    /\ items = <<>>
    /\ AheadVal(1) \in breaks

\* a separator item that a line break was promoted to (an explicit one is ";")
IsPromoted(i) ==
    /\ i.Type = "Separator"
    /\ i.Value # <<>>
    /\ i.Value[Len(i.Value)] \in {"\n", "\r", vt, "\f"}

(***************************************************************************)
(* C1: for every finite input the token stream is finite: the lexer        *)
(* eventually emits exactly one end-of-input token, as the last token, and *)
(* closes the channel; also when the input ends inside a string.           *)
(* Checked under FairSpec.  It fails for an input that ends inside a       *)
(* single-quoted string.                                                   *)
(***************************************************************************)
C1_StreamTerminates ==
    <>(/\ complete
       /\ tokens # <<>>
       /\ tokens[Len(tokens)].Type = "EOF"
       /\ Cardinality({i \in 1..Len(tokens) : tokens[i].Type = "EOF"}) = 1)

(***************************************************************************)
(* C2: a scanning failure emits exactly one error token and nothing after  *)
(* it.  Stated here in the reading that still lets the end-of-input token  *)
(* of run() close the stream: at most one error token, and only the        *)
(* end-of-input token after it.  (Read strictly the claim fails at every   *)
(* failure, since run() always emits EOF.)  It fails for an input that     *)
(* ends inside a single-quoted string.                                     *)
(***************************************************************************)
C2_OneErrorThenHalt ==
    \A i \in 1..Len(tokens) :
        tokens[i].Type = "Error" =>
            \A j \in (i + 1)..Len(tokens) : tokens[j].Type = "EOF"

(***************************************************************************)
(* C3: a raw line break (newline, vertical tab, form feed) produces a      *)
(* separator token exactly when the most recently emitted non-comment      *)
(* token is an identifier, a number or string literal, a closing paren or  *)
(* a closing brace; after any other token, or none, it produces no token.  *)
(***************************************************************************)
StatementEnders ==
    {"Ident", "Number", "DoubleQuoteString", "SingleQuoteString",
     "BacktickString", "RightParen", "RightBrace"}

C4_OneSeparatorPerBoundary ==
    /\ \A i \in 1..Len(tokens) :
          IsPromoted(tokens[i]) =>
              LastSignificantType(SubSeq(tokens, 1, i - 1)) # "Separator"
    /\ (input = ProgSemicolonNewline /\ ~readErr /\ complete) =>
          TypesOf(tokens) = <<"Ident", "Separator", "Ident", "EOF">>

C4_Witness ==
    /\ input = ProgSemicolonNewline
    /\ ~readErr
    /\ complete
    /\ tokens[2].Value = <<";">>

(***************************************************************************)
(* C5, as amended: #comment<newline>x, then end of input, yields, with the *)
(* comment tokens filtered out, exactly identifier x and end-of-input: no  *)
(* separator, since no line break follows x.                               *)
(***************************************************************************)
C5_HashCommentThenX ==
    (input = ProgHashCommentX /\ ~readErr /\ complete) =>
        /\ TypesOf(noComment(tokens)) = <<"Ident", "EOF">>
        /\ noComment(tokens)[1].Value = <<"x">>

C5_Witness ==
    /\ input = ProgHashCommentX
    /\ ~readErr
    /\ complete
    /\ Len(tokens) = 3

\* C5 as stated: the filtered stream is identifier x, a separator, end-of-input.
C5_Original ==
    (input = ProgHashCommentX /\ ~readErr /\ complete) =>
        TypesOf(noComment(tokens)) = <<"Ident", "Separator", "EOF">>

(***************************************************************************)
(* C6: a number holds at most one decimal point: when a second point is    *)
(* met while scanning a number, or a letter directly follows the digits,   *)
(* the lexer emits an error token and no number token.  It fails at the    *)
(* second point.                                                           *)
(***************************************************************************)
C6_SecondPointIsError ==
    [][(/\ state = "number"
        /\ items = <<>>
        /\ \/ AheadVal(1) = "." /\ "." \in Range(current)
           \/ isLetter(AheadVal(1)))
          => (items' # <<>> /\ items'[1].Type = "Error" /\ state' = "nil")]_vars

(***************************************************************************)
(* C7: in a double- or single-quoted string a newline before the closing   *)
(* quote is a lexical error and no string token is produced (a backtick    *)
(* string may hold newlines).  Stated on the tokens: no double- or         *)
(* single-quoted string token holds a newline that is not escaped.  It     *)
(* fails for single-quoted strings.                                        *)
(***************************************************************************)
RECURSIVE HasRawNewline(_, _)
HasRawNewline(v, i) ==
    IF i > Len(v) THEN FALSE
    ELSE IF v[i] = "\\" THEN HasRawNewline(v, i + 2)
    ELSE IF v[i] = "\n" THEN TRUE
    ELSE HasRawNewline(v, i + 1)

C7_NoNewlineInQuotedString ==
    \A i \in 1..Len(tokens) :
        tokens[i].Type \in {"DoubleQuoteString", "SingleQuoteString"} =>
            ~HasRawNewline(tokens[i].Value, 2)

(***************************************************************************)
(* C8: in double- and single-quoted strings the rune after a backslash is  *)
(* string content whatever it is, so the string token ends at the first    *)
(* quote that is not escaped; in a backtick string a backslash means       *)
(* nothing and the token ends at the first backtick.  An input that starts  *)
(* with a closed string has that string, up to that quote, as its first    *)
(* token.                                                                  *)
(***************************************************************************)
\* the index of the first closing quote q of v at or after i (0 when none)
RECURSIVE FirstClose(_, _, _, _)
FirstClose(v, i, q, escapes) ==
    IF i > Len(v) THEN 0
    ELSE IF escapes /\ v[i] = "\\" THEN FirstClose(v, i + 2, q, escapes)
    ELSE IF v[i] = q THEN i
    ELSE FirstClose(v, i + 1, q, escapes)

EndsAtFirstClose(v, q, escapes) ==
    Len(v) >= 2 /\ v[1] = q /\ FirstClose(v, 2, q, escapes) = Len(v)

StringKinds ==
    {[type |-> "DoubleQuoteString", quote |-> "\"", escapes |-> TRUE],
     [type |-> "SingleQuoteString", quote |-> "'", escapes |-> TRUE],
     [type |-> "BacktickString", quote |-> backtick, escapes |-> FALSE]}

\* the input starts with a string of kind k that is closed (on its first line,
\* for the kinds that escape)
StartsWithClosedString(k) ==
    /\ input # <<>>
    /\ input[1] = k.quote
    /\ FirstClose(input, 2, k.quote, k.escapes) > 0
    /\ k.escapes =>
          Range(SubSeq(input, 1, FirstClose(input, 2, k.quote, k.escapes)))
              \cap {"\n", "\r"} = {}

C8_StringEndsAtFirstUnescapedQuote ==
    /\ \A i \in 1..Len(tokens) :
          /\ tokens[i].Type = "DoubleQuoteString" =>
                EndsAtFirstClose(tokens[i].Value, "\"", TRUE)
          /\ tokens[i].Type = "SingleQuoteString" =>
                EndsAtFirstClose(tokens[i].Value, "'", TRUE)
          /\ tokens[i].Type = "BacktickString" =>
                EndsAtFirstClose(tokens[i].Value, backtick, FALSE)
    /\ \A k \in StringKinds :
          (tokens # <<>> /\ StartsWithClosedString(k)) =>
              /\ tokens[1].Type = k.type
              /\ tokens[1].Value =
                    SubSeq(input, 1, FirstClose(input, 2, k.quote, k.escapes))

C8_Witness ==
    \E i \in 1..Len(tokens) :
        /\ tokens[i].Type = "DoubleQuoteString"
        /\ tokens[i].Value = <<"\"", "\\", "\"", "\"">>

(***************************************************************************)
(* C9: at an operator position the lexer takes the longest match: when the *)
(* next two runes form a two-rune operator it emits that one token,        *)
(* otherwise the single-rune operator of the first rune alone, and a rune  *)
(* that is no operator, letter, digit, quote, # or whitespace is a lexical *)
(* error.  (Two slashes start a comment; that is no operator position.)    *)
(***************************************************************************)
TwoRuneOperators ==
    {<<"=", "=">>, <<"!", "=">>, <<">", "=">>, <<"<", "=">>, <<">", ">">>,
     <<":", "=">>, <<"+", "=">>, <<"-", "=">>, <<"*", "=">>, <<"/", "=">>,
     <<"%", "=">>, <<"|", "|">>, <<"&", "&">>}

OneRuneOperators ==
    {";", ",", "+", "-", "*", "/", "%", "<", ">", "!", ".", "=", "(", ")", "{", "}"}

AtOperatorPosition ==
    /\ state = "cleanSlate"
    /\ items = <<>>
    /\ AheadVal(1) \notin
          Whitespace \cup Letters \cup Digits \cup {"\"", "'", backtick, "#", eof}
    /\ ~(AheadVal(1) = "/" /\ AheadVal(2) = "/")

C9_LongestMatch ==
    [][AtOperatorPosition =>
          IF <<AheadVal(1), AheadVal(2)>> \in TwoRuneOperators
          THEN /\ items' # <<>>
               /\ items'[1].Type # "Error"
               /\ items'[1].Value = <<AheadVal(1), AheadVal(2)>>
               /\ state' = "cleanSlate"
          ELSE IF AheadVal(1) \in OneRuneOperators
          THEN /\ items' # <<>>
               /\ items'[1].Type # "Error"
               /\ items'[1].Value = <<AheadVal(1)>>
               /\ state' = "cleanSlate"
          ELSE /\ items' # <<>>
               /\ items'[1].Type = "Error"
               /\ state' = "nil"]_vars

C9_Witness ==
    \E i \in 1..Len(tokens) :
        /\ tokens[i].Type = "LessOrEqual"
        /\ tokens[i].Value = <<"<", "=">>

(***************************************************************************)
(* C10: a tab at column c moves the column to the next tab stop (1-based   *)
(* columns 5, 9, 13, ...), and a line break resets the column to 1.        *)
(* Stated on the step that counts the whitespace eaten (tabs, spaces and   *)
(* newlines).  It fails for a tab at column 2.                             *)
(***************************************************************************)
NextTabStop(c) == (((c - 1) \div tabWidth) + 1) * tabWidth + 1

RECURSIVE ColumnAfter(_, _, _)
ColumnAfter(c, s, i) ==
    IF i > Len(s) THEN c
    ELSE IF s[i] = "\t" THEN ColumnAfter(NextTabStop(c), s, i + 1)
    ELSE IF s[i] = "\n" THEN ColumnAfter(1, s, i + 1)
    ELSE ColumnAfter(c + 1, s, i + 1)

C10_TabStops ==
    [][(/\ state = "whitespace"
        /\ state' = "cleanSlate"
        /\ Range(current) \subseteq {"\t", " ", "\n"})
          => curCol' = ColumnAfter(curCol, current, 1)]_vars

(***************************************************************************)
(* Part 2: the tree builder, package parser (src/unnamed/part_000).        *)
(*                                                                         *)
(* Parse() is parseItems over nodify(noComment(items)).  A Node is a       *)
(* record of its Item, its Resolved mark and the sequence of its Children. *)
(* The stages and jobs are operators on sequences of nodes, computed as    *)
(* the code computes them; the outermost parseItems is the state machine   *)
(* ParseSpec below, whose pipeline carries the statements from job to job. *)
(* A stage that indexes past the end of a slice panics, which ends the     *)
(* program: such a result is marked ok |-> FALSE.                          *)
(***************************************************************************)
Node(item, resolved, children) ==
    [Item |-> item, Resolved |-> resolved, Children |-> children]

\* lex.Type.Match
Match(t, targets) == t \in targets

Literals == {"Ident", "Number", "DoubleQuoteString", "SingleQuoteString", "BacktickString"}

nodify(in) == [i \in 1..Len(in) |-> Node(in[i], Match(in[i].Type, Literals), <<>>)]

unresolvedType(n) == IF n.Resolved THEN "Nada" ELSE n.Item.Type

gorp(before, middle, after) == (before \o <<middle>>) \o after

\* the first index of S in the order of a loop counting up
firstIn(S) == CHOOSE i \in S : \A j \in S : i <= j

leftmostBackwards(S) == CHOOSE i \in S : \A j \in S : i >= j

\* for i := 0; i < len(stmt)-2; i++ : the first match is the leftmost one
leftmost(S) == CHOOSE i \in S : \A j \in S : i <= j

rightmostForwards(S) == CHOOSE i \in S : \A j \in S : i <= j

\* for i := len(stmt) - 2; i >= 0; i-- : the first match is the rightmost one
rightmost(S) == CHOOSE i \in S : \A j \in S : i >= j

\* binaryOps(operators...)(stmt): i is the place of the left operand
RECURSIVE binaryOps(_, _)
binaryOps(operators, stmt) ==
    LET hits == {i \in 1..(Len(stmt) - 2) : Match(unresolvedType(stmt[i + 1]), operators)}
    IN  IF hits = {}
        THEN stmt
        ELSE LET i == leftmost(hits)
                 operation == Node(stmt[i + 1].Item, TRUE, <<stmt[i], stmt[i + 2]>>)
             IN  binaryOps(operators,
                           gorp(SubSeq(stmt, 1, i - 1), operation, SubSeq(stmt, i + 3, Len(stmt))))

\* what a job hands on: the statement, or a panic (index out of range)
Ok(stmt) == [ok |-> TRUE, stmt |-> stmt]

Panic == [ok |-> FALSE, stmt |-> <<>>]

\* binaryOpsRightToLeft(operators...)(stmt): i is the place of the left
\* operand; the loop also comes to the last node as the operator, and then
\* stmt[i+2] is past the end of the slice
RECURSIVE binaryOpsRightToLeft(_, _)
binaryOpsRightToLeft(operators, stmt) ==
    LET hits == {i \in 1..(Len(stmt) - 1) : Match(unresolvedType(stmt[i + 1]), operators)}
    IN  IF hits = {}
        THEN Ok(stmt)
        ELSE LET i == rightmost(hits)
                 operation == Node(stmt[i + 1].Item, TRUE, <<stmt[i], stmt[i + 2]>>)
             IN  IF i + 2 > Len(stmt)
                 THEN Panic
                 ELSE binaryOpsRightToLeft(operators,
                          gorp(SubSeq(stmt, 1, i - 1), operation, SubSeq(stmt, i + 3, Len(stmt))))

assignOpMinusAsPlus(op) ==
    CASE op = "PlusAssign" -> "Plus"
      [] op = "MinusAssign" -> "Plus"
      [] op = "MultAssign" -> "Mult"
      [] op = "DivAssign" -> "Div"
      [] op = "ModuloAssign" -> "Modulo"
      [] OTHER -> "Error"

assignOp(op) ==
    CASE op = "PlusAssign" -> "Plus"
      [] op = "MinusAssign" -> "Minus"
      [] op = "MultAssign" -> "Mult"
      [] op = "DivAssign" -> "Div"
      [] op = "ModuloAssign" -> "Modulo"
      [] OTHER -> "Error"

\* Node.Item with Item.Type set anew
retyped(item, t) == [item EXCEPT !.Type = t]

\* reassign(stmt): rewrites the first node of a compound assignment type,
\* whatever its mark and its children; n.Children[1] is out of range when
\* the node has not been folded
reassign(stmt) ==
    LET hits == {i \in 1..Len(stmt) : ~Match(assignOp(stmt[i].Item.Type), {"Error"})}
    IN  IF hits = {}
        THEN Ok(stmt)
        ELSE LET i == firstIn(hits)
                 n == stmt[i]
                 opNode == Node(retyped(n.Item, assignOp(n.Item.Type)), n.Resolved,
                                <<n.Children[1], n.Children[2]>>)
                 newNode == Node(retyped(n.Item, "Assign"), n.Resolved,
                                 <<n.Children[1], opNode>>)
             IN  IF Len(n.Children) < 2
                 THEN Panic
                 ELSE Ok((SubSeq(stmt, 1, i - 1) \o <<newNode>>) \o SubSeq(stmt, i + 1, Len(stmt)))

collapseNothing(operators, stmt) == stmt

\* collapse(operators...)(stmt)
RECURSIVE collapse(_, _)
collapse(operators, stmt) ==
    LET hits == {i \in 1..Len(stmt) :
                    /\ Len(stmt[i].Children) # 0
                    /\ Match(stmt[i].Item.Type, operators)
                    /\ stmt[i].Item.Type = stmt[i].Children[1].Item.Type}
    IN  IF hits = {}
        THEN stmt
        ELSE LET i == firstIn(hits)
                 childOp == stmt[i].Children[1]
                 op == [stmt[i] EXCEPT !.Children = childOp.Children \o Tail(stmt[i].Children)]
             IN  collapse(operators,
                          gorp(SubSeq(stmt, 1, i - 1), op, SubSeq(stmt, i + 1, Len(stmt))))

\* a line of the log: what log.Printf is given
Report(msg, item) == [msg |-> msg, item |-> item]

\* checkResolved(stmt) returns stmt as it is; these are the lines it logs
RECURSIVE checkResolvedLog(_)
checkResolvedLog(stmt) ==
    UNION {(IF ~stmt[i].Resolved
            THEN {Report("misplaced operator/missing operand", stmt[i].Item)}
            ELSE {}) \cup checkResolvedLog(stmt[i].Children) : i \in 1..Len(stmt)}

checkResolved(stmt) == stmt

JobsPlusFirst ==
    << [f |-> "binaryOps", operators |-> {"Plus", "Minus"}],
       [f |-> "binaryOps", operators |-> {"Mult", "Div", "Modulo"}],
       [f |-> "binaryOps", operators |-> {"Less", "Greater", "LessOrEqual",
                                          "GreaterOrEqual", "Equal", "NotEqual"}],
       [f |-> "binaryOps", operators |-> {"And", "Or"}],
       [f |-> "binaryOps", operators |-> {"Comma"}],
       [f |-> "collapse", operators |-> {"Comma"}],
       [f |-> "binaryOpsRightToLeft",
        operators |-> {"Assign", "PlusAssign", "MinusAssign", "MultAssign",
                       "DivAssign", "ModuloAssign"}],
       [f |-> "reassign", operators |-> {}],
       [f |-> "checkResolved", operators |-> {}] >>

\* the jobs parseItems gives to pipeline, in order
Jobs ==
    << [f |-> "binaryOps", operators |-> {"Mult", "Div", "Modulo"}],
       [f |-> "binaryOps", operators |-> {"Plus", "Minus"}],
       [f |-> "binaryOps", operators |-> {"Less", "Greater", "LessOrEqual",
                                          "GreaterOrEqual", "Equal", "NotEqual"}],
       [f |-> "binaryOps", operators |-> {"And", "Or"}],
       [f |-> "binaryOps", operators |-> {"Comma"}],
       [f |-> "collapse", operators |-> {"Comma"}],
       [f |-> "binaryOpsRightToLeft",
        operators |-> {"Assign", "PlusAssign", "MinusAssign", "MultAssign",
                       "DivAssign", "ModuloAssign"}],
       [f |-> "reassign", operators |-> {}],
       [f |-> "checkResolved", operators |-> {}] >>

\* out <- f(stmt), for the job f
runJob(job, stmt) ==
    CASE job.f = "binaryOps" -> Ok(binaryOps(job.operators, stmt))
      [] job.f = "collapse" -> Ok(collapse(job.operators, stmt))
      [] job.f = "binaryOpsRightToLeft" -> binaryOpsRightToLeft(job.operators, stmt)
      [] job.f = "reassign" -> reassign(stmt)
      [] job.f = "checkResolved" -> Ok(checkResolved(stmt))

jobLog(job, stmt) == IF job.f = "checkResolved" THEN checkResolvedLog(stmt) ELSE {}

\* a statement through the jobs j, j+1, ... : what comes out, and the log
RECURSIVE runJobs(_, _, _)
runJobs(j, stmt, lines) ==
    IF j > Len(Jobs)
    THEN [ok |-> TRUE, stmt |-> stmt, log |-> lines]
    ELSE LET r == runJob(Jobs[j], stmt)
         IN  IF ~r.ok
             THEN [ok |-> FALSE, stmt |-> <<>>, log |-> lines]
             ELSE runJobs(j + 1, r.stmt, lines \cup jobLog(Jobs[j], stmt))

\* slicify: the nodes are read up to the Separator or EOF that ends the
\* first statement that is not empty; cut is the place of that node
isBreak(n) == n.Item.Type = "Separator" \/ n.Item.Type = "EOF"

cut(in) ==
    LET ends == {k \in 1..Len(in) : isBreak(in[k]) /\ \E j \in 1..(k - 1) : ~isBreak(in[j])}
    IN  IF ends = {} THEN Len(in) + 1 ELSE firstIn(ends)

slice(in) == SelectSeq(SubSeq(in, 1, cut(in) - 1), LAMBDA n : ~isBreak(n))

RECURSIVE slicify(_)
slicify(in) ==
    IF slice(in) = <<>>
    THEN <<>>
    ELSE <<slice(in)>> \o slicify(SubSeq(in, cut(in) + 1, Len(in)))

adjustDepth(n, open, close) ==
    IF Match(close, {n.Item.Type}) THEN -1
    ELSE IF Match(open, {n.Item.Type}) THEN 1
    ELSE 0

\* the inner goroutine of bracify and parenthify, reading in from place i at
\* the given depth: the place of the node it returns on (the close that
\* brings the depth to 0, or EOF), or Len(in) + 1 when in is closed first
RECURSIVE regionEnd(_, _, _, _, _)
regionEnd(in, i, depth, open, close) ==
    IF i > Len(in)
    THEN i
    ELSE LET d == depth + adjustDepth(in[i], open, close)
         IN  IF d = 0 \/ Match(in[i].Item.Type, {"EOF"})
             THEN i
             ELSE regionEnd(in, i + 1, d, open, close)

\* the lines parseItems logs for what comes out of the pipeline
stmtLog(x) ==
    IF Len(x) > 1 THEN {Report("error parsing statement", x[1].Item)}
    ELSE IF Len(x) = 0 THEN {Report("0 elements", ZeroItem)}
    ELSE {}

RECURSIVE parseItems(_, _)
RECURSIVE subtree(_, _, _, _)

\* the loop bracify and parenthify share: a node that is not the open one is
\* passed on; at an open one the nodes up to regionEnd go to parseItems and
\* the Node it returns is passed on
subtree(in, open, close, msg) ==
    IF in = <<>>
    THEN [ok |-> TRUE, out |-> <<>>, log |-> {}]
    ELSE IF ~Match(Head(in).Item.Type, {open})
    THEN LET rest == subtree(Tail(in), open, close, msg)
         IN  [rest EXCEPT !.out = <<Head(in)>> \o rest.out]
    ELSE LET e == regionEnd(in, 2, 1, open, close)
             unclosed == e <= Len(in) /\ Match(in[e].Item.Type, {"EOF"})
             sub == parseItems(Head(in).Item, SubSeq(in, 2, e - 1))
             rest == subtree(SubSeq(in, e + 1, Len(in)), open, close, msg)
         IN  [ok |-> sub.ok /\ rest.ok,
              out |-> <<sub.node>> \o rest.out,
              log |-> (IF unclosed THEN {Report(msg, Head(in).Item)} ELSE {})
                      \cup sub.log \cup rest.log]

bracify(in) == subtree(in, "LeftBrace", "RightBrace", "open brace without close")

parenthify(in) == subtree(in, "LeftParen", "RightParen", "open paren without close")

\* bracify(parenthify(items))
brackets(in) ==
    LET p == parenthify(in)
        b == bracify(p.out)
    IN  [ok |-> p.ok /\ b.ok, out |-> b.out, log |-> p.log \cup b.log]

\* the statements out of the pipeline that become children: x[0] of those of
\* one node
RECURSIVE kept(_)
kept(xs) ==
    IF xs = <<>> THEN <<>>
    ELSE (IF Len(Head(xs)) = 1 THEN <<Head(xs)[1]>> ELSE <<>>) \o kept(Tail(xs))

\* parseItems(wrapItem, items), run to its end: the Node, the log, and
\* whether it got there without a panic
parseItems(wrapItem, in) ==
    LET b == brackets(in)
        ss == slicify(b.out)
        rs == [k \in 1..Len(ss) |-> runJobs(1, ss[k], {})]
        xs == [k \in 1..Len(ss) |-> rs[k].stmt]
    IN  [ok |-> b.ok /\ \A k \in 1..Len(ss) : rs[k].ok,
         node |-> Node(wrapItem, TRUE, kept(xs)),
         log |-> b.log \cup UNION {rs[k].log \cup stmtLog(xs[k]) : k \in 1..Len(ss)}]

(***************************************************************************)
(* The items Parse() is given.  An input is a sequence of lexemes; its     *)
(* items are what the lexer makes of them, each at its own column, with    *)
(* the closing EOF.                                                        *)
(***************************************************************************)
itemType(text) ==
    IF text[1] = "#" THEN "HashComment"
    ELSE IF Len(text) = 2 /\ doubleRuneOperator(text[1], text[2]) # "Error"
    THEN doubleRuneOperator(text[1], text[2])
    ELSE IF isDigit(text[1]) THEN "Number"
    ELSE IF isLetter(text[1]) THEN wordType(text)
    ELSE singleRuneOperator(text[1])

Items(texts) ==
    [i \in 1..Len(texts) |-> Item(itemType(texts[i]), texts[i], 1, i)]
        \o <<Item("EOF", <<RuneError>>, 1, Len(texts) + 1)>>

MaxTier == 5        \* longest input over TierAlphabet
MaxAssign == 5      \* longest input over AssignAlphabet
MaxComma == 5       \* longest input over CommaAlphabet
MaxBracket == 5     \* longest input over BracketAlphabet
MaxStmt == 5        \* longest input over StmtAlphabet

TierAlphabet == {<<"a">>, <<"*">>, <<"+">>, <<"<">>}

AssignAlphabet == {<<"a">>, <<"+">>, <<"=">>, <<"+", "=">>}

CommaAlphabet == {<<"a">>, <<",">>, <<"=">>}

BracketAlphabet == {<<"a">>, <<"(">>, <<")">>, <<"{">>, <<"}">>}

StmtAlphabet == {<<"a">>, <<";">>, <<"=">>, <<"+">>}

\* 1 + 2 * 3
ProgTiers == << <<"1">>, <<"+">>, <<"2">>, <<"*">>, <<"3">> >>

\* a || b < c - d % e
ProgAllTiers ==
    << <<"a">>, <<"|", "|">>, <<"b">>, <<"<">>, <<"c">>, <<"-">>, <<"d">>, <<"%">>, <<"e">> >>

\* a - b + c
ProgLeftAssoc == << <<"a">>, <<"-">>, <<"b">>, <<"+">>, <<"c">> >>

\* a = b = 1
ProgRightAssoc == << <<"a">>, <<"=">>, <<"b">>, <<"=">>, <<"1">> >>

\* x += 1, x -= 1, x *= 1, x /= 1, x %= 1
CompoundOps == {<<"+", "=">>, <<"-", "=">>, <<"*", "=">>, <<"/", "=">>, <<"%", "=">>}

ProgCompound == {<< <<"x">>, op, <<"1">> >> : op \in CompoundOps}

\* ( a a ) ; b
ProgTwoNodes == << <<"(">>, <<"a">>, <<"a">>, <<")">>, <<";">>, <<"b">> >>

\* a , b , c , d
ProgFourOperands == << <<"a">>, <<",">>, <<"b">>, <<",">>, <<"c">>, <<",">>, <<"d">> >>

\* ( a , b ) , c
ProgGroupFirst == << <<"(">>, <<"a">>, <<",">>, <<"b">>, <<")">>, <<",">>, <<"c">> >>

\* a , ( b , c )
ProgGroupLast == << <<"a">>, <<",">>, <<"(">>, <<"b">>, <<",">>, <<"c">>, <<")">> >>

ParsePrograms ==
    {ProgTiers, ProgAllTiers, ProgLeftAssoc, ProgRightAssoc, ProgTwoNodes,
     ProgFourOperands, ProgGroupFirst, ProgGroupLast} \cup ProgCompound

ParseInputs ==
    SeqsUpTo(TierAlphabet, MaxTier) \cup SeqsUpTo(AssignAlphabet, MaxAssign)
        \cup SeqsUpTo(CommaAlphabet, MaxComma)
        \cup SeqsUpTo(BracketAlphabet, MaxBracket) \cup SeqsUpTo(StmtAlphabet, MaxStmt)
        \cup ParsePrograms

\* parser.New and the call of Parse(): the lexer has done its part
ParseInit ==
    /\ input = <<>>
    /\ readErr = FALSE
    /\ pos = 0
    /\ backupBuffer = <<>>
    /\ current = <<>>
    /\ curLine = 1
    /\ curCol = 1
    /\ items = <<>>
    /\ lastItem = ZeroItem
    /\ state = "closed"
    /\ gotPoint = FALSE
    /\ tokens = <<>>
    /\ pitems \in {Items(texts) : texts \in ParseInputs}
    /\ nodes = <<>>
    /\ pipe = [j \in 0..Len(Jobs) |-> <<>>]
    /\ stmts = <<>>
    /\ plog = {}
    /\ pstate = "start"
    /\ ast = <<>>
    /\ heap = <<>>
    /\ called = <<>>
    /\ enode = <<>>
    /\ program = <<>>
    /\ result = <<>>
    /\ runs = <<>>
    /\ regionIdle
    /\ estate = "idle"

prog == Item("LeftBrace", <<"{">>, 1, 1)

\* Parse, up to slicify: nodify(noComment(p.items)) through parenthify and
\* bracify, which run the inner parseItems of every bracket
Parse ==
    /\ pstate = "start"
    /\ LET p == parenthify(nodify(noComment(pitems)))
           b == bracify(p.out)
       IN  /\ nodes' = b.out
           /\ plog' = (plog \cup p.log) \cup b.log
           /\ pstate' = IF p.ok /\ b.ok THEN "running" ELSE "panic"
    /\ UNCHANGED <<pitems, pipe, stmts, ast, lexVars, evalVars, regionVars>>

\* slicify sends the next statement
slicifySend ==
    /\ pstate = "running"
    /\ pipe[0] = <<>>
    /\ slice(nodes) # <<>>
    /\ pipe' = [pipe EXCEPT ![0] = <<slice(nodes)>>]
    /\ nodes' = SubSeq(nodes, cut(nodes) + 1, Len(nodes))
    /\ UNCHANGED <<pitems, stmts, plog, pstate, ast, lexVars, evalVars, regionVars>>

\* the goroutine of job j takes a statement and sends f(stmt)
pipeline ==
    \E j \in 1..Len(Jobs) :
        /\ pstate = "running"
        /\ pipe[j - 1] # <<>>
        /\ pipe[j] = <<>>
        /\ LET stmt == pipe[j - 1][1]
               r == runJob(Jobs[j], stmt)
           IN  /\ pipe' = IF r.ok
                          THEN [pipe EXCEPT ![j - 1] = <<>>, ![j] = <<r.stmt>>]
                          ELSE [pipe EXCEPT ![j - 1] = <<>>]
               /\ pstate' = IF r.ok THEN "running" ELSE "panic"
               /\ plog' = plog \cup jobLog(Jobs[j], stmt)
        /\ UNCHANGED <<pitems, nodes, stmts, ast, lexVars, evalVars, regionVars>>

parseItemsLoopPrepend ==
    /\ pstate = "running"
    /\ pipe[Len(Jobs)] # <<>>
    /\ LET x == pipe[Len(Jobs)][1]
       IN  /\ stmts' = IF Len(x) = 1 THEN <<x[1]>> \o stmts ELSE stmts
           /\ plog' = plog \cup stmtLog(x)
    /\ pipe' = [pipe EXCEPT ![Len(Jobs)] = <<>>]
    /\ UNCHANGED <<pitems, nodes, pstate, ast, lexVars, evalVars, regionVars>>

parseItemsLoopKeepFirst ==
    /\ pstate = "running"
    /\ pipe[Len(Jobs)] # <<>>
    /\ LET x == pipe[Len(Jobs)][1]
       IN  /\ stmts' = Append(stmts, x[1])
           /\ plog' = plog \cup stmtLog(x)
    /\ pipe' = [pipe EXCEPT ![Len(Jobs)] = <<>>]
    /\ UNCHANGED <<pitems, nodes, pstate, ast, lexVars, evalVars, regionVars>>

\* the body of the loop of parseItems over what the pipeline sends
parseItemsLoop ==
    /\ pstate = "running"
    /\ pipe[Len(Jobs)] # <<>>
    /\ LET x == pipe[Len(Jobs)][1]
       IN  /\ stmts' = IF Len(x) = 1 THEN Append(stmts, x[1]) ELSE stmts
           /\ plog' = plog \cup stmtLog(x)
    /\ pipe' = [pipe EXCEPT ![Len(Jobs)] = <<>>]
    /\ UNCHANGED <<pitems, nodes, pstate, ast, lexVars, evalVars, regionVars>>

\* every channel is closed and drained: parseItems returns the Node
parseItemsReturn ==
    /\ pstate = "running"
    /\ slice(nodes) = <<>>
    /\ \A j \in 0..Len(Jobs) : pipe[j] = <<>>
    /\ ast' = <<Node(prog, TRUE, stmts)>>
    /\ pstate' = "returned"
    /\ UNCHANGED <<pitems, nodes, pipe, stmts, plog, lexVars, evalVars, regionVars>>

ParseNext ==
    \/ Parse
    \/ slicifySend
    \/ pipeline
    \/ parseItemsLoop
    \/ parseItemsReturn

ParseSpec == ParseInit /\ [][ParseNext]_vars

(***************************************************************************)
(* Properties of the tree builder.                                         *)
(***************************************************************************)
returned == pstate = "returned"

root == ast[1]

\* a tree as Node.String shows it: the type and the text of the item, and
\* the trees of the children
RECURSIVE sexpr(_)
sexpr(n) == <<n.Item.Type, n.Item.Value, [i \in 1..Len(n.Children) |-> sexpr(n.Children[i])]>>

leaf(text) == <<itemType(text), text, <<>>>>

tree(text, kids) == <<itemType(text), text, kids>>

\* the trees of the statements of the root
statements == [i \in 1..Len(root.Children) |-> sexpr(root.Children[i])]

\* the precedence table: the tier of an operator type, 1 binding tightest
Tiers ==
    << {"Mult", "Div", "Modulo"},
       {"Plus", "Minus"},
       {"Less", "Greater", "LessOrEqual", "GreaterOrEqual", "Equal", "NotEqual"},
       {"And", "Or"},
       {"Comma"},
       {"Assign", "PlusAssign", "MinusAssign", "MultAssign", "DivAssign", "ModuloAssign"} >>

isOperator(t) == \E k \in 1..Len(Tiers) : t \in Tiers[k]

tierOf(t) == CHOOSE k \in 1..Len(Tiers) : t \in Tiers[k]

\* a node some fold has made of an operator written as such in the source
folded(n) ==
    /\ n.Children # <<>>
    /\ isOperator(n.Item.Type)
    /\ itemType(n.Item.Value) = n.Item.Type

\* no folded operator has, for an operand, a folded operator of a looser tier
RECURSIVE TierOrdered(_)
TierOrdered(n) ==
    \A i \in 1..Len(n.Children) :
        /\ TierOrdered(n.Children[i])
        /\ (folded(n) /\ folded(n.Children[i]))
               => tierOf(n.Children[i].Item.Type) <= tierOf(n.Item.Type)

\* C11: the operators of a statement are folded tier by tier, * / % first,
\* then + -, the comparisons, && ||, the comma and last the assignments: an
\* operand of a folded operator is never a folded operator of a looser
\* tier, and 1 + 2 * 3 parses to (+ 1 (* 2 3)).
C11_TierByTier ==
    returned =>
        /\ TierOrdered(root)
        /\ pitems = Items(ProgTiers) =>
               statements = << tree(<<"+">>, << leaf(<<"1">>),
                                   tree(<<"*">>, << leaf(<<"2">>), leaf(<<"3">>) >>) >>) >>
        /\ pitems = Items(ProgAllTiers) =>
               statements =
                   << tree(<<"|", "|">>, << leaf(<<"a">>),
                          tree(<<"<">>, << leaf(<<"b">>),
                              tree(<<"-">>, << leaf(<<"c">>),
                                  tree(<<"%">>, << leaf(<<"d">>), leaf(<<"e">>) >>) >>) >>) >>) >>

C11_Witness ==
    /\ returned
    /\ pitems = Items(ProgTiers)
    /\ Len(root.Children) = 1
    /\ root.Children[1].Item.Type = "Plus"
    /\ root.Children[1].Children[2].Item.Type = "Mult"

\* no folded operator of the tiers before the assignments has, for an
\* operand after the first, a folded operator of its own tier
RECURSIVE LeftAssociative(_)
LeftAssociative(n) ==
    \A i \in 1..Len(n.Children) :
        /\ LeftAssociative(n.Children[i])
        /\ (i > 1 /\ folded(n) /\ folded(n.Children[i]) /\ tierOf(n.Item.Type) < Len(Tiers))
               => tierOf(n.Children[i].Item.Type) # tierOf(n.Item.Type)

\* C12: within one tier that is not the assignment tier, the fold takes the
\* leftmost operator still unresolved and scans again from the start, so
\* the operators of one tier associate to the left: a - b + c parses to
\* (+ (- a b) c).
C12_LeftmostFirst ==
    returned =>
        /\ LeftAssociative(root)
        /\ pitems = Items(ProgLeftAssoc) =>
               statements =
                   << tree(<<"+">>, << tree(<<"-">>, << leaf(<<"a">>), leaf(<<"b">>) >>),
                                       leaf(<<"c">>) >>) >>

C12_Witness ==
    /\ returned
    /\ pitems = Items(ProgLeftAssoc)
    /\ Len(root.Children) = 1
    /\ root.Children[1].Item.Type = "Plus"
    /\ root.Children[1].Children[1].Item.Type = "Minus"

\* a node with operands whose type is one of the assignments
assignment(n) == n.Children # <<>> /\ n.Item.Type \in Tiers[Len(Tiers)]

\* no assignment has an assignment for its left operand
RECURSIVE RightAssociative(_)
RightAssociative(n) ==
    \A i \in 1..Len(n.Children) :
        /\ RightAssociative(n.Children[i])
        /\ (i = 1 /\ assignment(n)) => ~assignment(n.Children[i])

\* C13: the assignment tier folds the rightmost assignment operator still
\* unresolved first, so assignments associate to the right: a = b = 1
\* parses to (= a (= b 1)).
C13_RightmostFirst ==
    returned =>
        /\ RightAssociative(root)
        /\ pitems = Items(ProgRightAssoc) =>
               statements =
                   << tree(<<"=">>, << leaf(<<"a">>),
                          tree(<<"=">>, << leaf(<<"b">>), leaf(<<"1">>) >>) >>) >>

C13_Witness ==
    /\ returned
    /\ pitems = Items(ProgRightAssoc)
    /\ Len(root.Children) = 1
    /\ root.Children[1].Item.Type = "Assign"
    /\ root.Children[1].Children[2].Item.Type = "Assign"

\* the shape of a tree: the types of its nodes and the texts of its leaves
RECURSIVE shape(_)
shape(n) ==
    <<n.Item.Type,
      IF n.Children = <<>> THEN n.Item.Value ELSE <<>>,
      [i \in 1..Len(n.Children) |-> shape(n.Children[i])]>>

\* the shape of the tree Parse returns for the lexemes texts
shapeOf(texts) == shape(parseItems(prog, nodify(noComment(Items(texts)))).node)

Operands == {<<"a">>, <<"x">>, <<"1">>}

\* the input is l op r for a compound assignment op and two operands
isCompound(l, op, r) == pitems = Items(<<l, op, r>>)

\* C14: l op= r gives the tree of l = l op r: an assignment node whose
\* left child is l and whose right child is the op node of l and r, for
\* each of += -= *= /= %=.  (The text l = (l op r) itself parses with one
\* more node, the one parenthify makes of the parentheses, around the op
\* node.)
C14_CompoundAssignment ==
    returned => \A op \in CompoundOps : \A l, r \in Operands :
        isCompound(l, op, r) =>
            /\ shape(root) = shapeOf(<<l, <<"=">>, l, <<op[1]>>, r>>)
            /\ Len(root.Children) = 1
            /\ shape(root.Children[1]) =
                   <<"Assign", <<>>,
                     << <<itemType(l), l, <<>>>>,
                        <<itemType(<<op[1]>>), <<>>,
                          << <<itemType(l), l, <<>>>>, <<itemType(r), r, <<>>>> >> >> >> >>

C14_Witness ==
    /\ returned
    /\ isCompound(<<"x">>, <<"+", "=">>, <<"1">>)
    /\ root.Children[1].Item.Type = "Assign"
    /\ root.Children[1].Children[2].Item.Type = "Plus"
    /\ root.Children[1].Children[2].Item.Value = <<"+", "=">>

\* C14 as stated: x += 1 gives the same tree shape as x = (x + 1)
C14_Original ==
    returned => \A op \in CompoundOps : \A l, r \in Operands :
        isCompound(l, op, r) =>
            shape(root) = shapeOf(<<l, <<"=">>, <<"(">>, l, <<op[1]>>, r, <<")">> >>)

\* the statement the pipeline hands to the loop of parseItems, if any
delivered == pipe[Len(Jobs)]

reported(msg, item) == Report(msg, item) \in plog

\* C15: every child of a block node comes from a statement that reduced to
\* exactly one node: the loop of parseItems appends x[0] when the statement
\* x it receives has one node, and otherwise reports x and appends nothing;
\* nothing else changes the children.  So for ( a a ) ; b the node of the
\* parentheses has no child, a a is reported and b is a child of the root.
C15_OneNodeStatements ==
    /\ [][/\ stmts' # stmts =>
                 /\ pstate = "running" /\ delivered # <<>> /\ Len(delivered[1]) = 1
                 /\ stmts' = Append(stmts, delivered[1][1])
          /\ (pstate = "running" /\ delivered # <<>> /\ delivered' = <<>>) =>
                 IF Len(delivered[1]) = 1
                 THEN stmts' = Append(stmts, delivered[1][1]) /\ plog' = plog
                 ELSE stmts' = stmts
                      /\ Report("error parsing statement", delivered[1][1].Item) \in plog'
         ]_vars
    /\ [](returned =>
              /\ root.Children = stmts
              /\ pitems = Items(ProgTwoNodes) =>
                     /\ statements = << tree(<<"(">>, <<>>), leaf(<<"b">>) >>
                     /\ reported("error parsing statement", Item("Ident", <<"a">>, 1, 2)))

\* a b ; c has been read to its end: a b is reported, c is the only child
C15_Witness ==
    /\ returned
    /\ \E r \in plog : r.msg = "error parsing statement"
    /\ Len(root.Children) = 1
    /\ Len(slicify(nodify(pitems))) = 2

RECURSIVE AllResolved(_)
AllResolved(n) == n.Resolved /\ \A i \in 1..Len(n.Children) : AllResolved(n.Children[i])

\* C16: every node of the tree Parse returns, every statement and every
\* descendant, is marked resolved: a statement with a node left unresolved
\* (a lone operator, a stray closing bracket, an error token, an operator
\* folded with an unresolved operator for an operand) is dropped.
C16_AllResolved == returned => AllResolved(root)

\* the statements of the outermost stream, each through the jobs one after
\* the other
topStatements == slicify(bracify(parenthify(nodify(noComment(pitems))).out).out)

\* the nodes of the statements that reduce to one node all resolved
goodNodes ==
    LET rs == [k \in 1..Len(topStatements) |-> runJobs(1, topStatements[k], {})]
        good(k) == rs[k].ok /\ Len(rs[k].stmt) = 1 /\ AllResolved(rs[k].stmt[1])
        RECURSIVE from(_)
        from(k) == IF k > Len(topStatements) THEN <<>>
                   ELSE (IF good(k) THEN <<rs[k].stmt[1]>> ELSE <<>>) \o from(k + 1)
    IN  from(1)

\* s is t with some elements left out
RECURSIVE isSubseq(_, _)
isSubseq(s, t) ==
    IF s = <<>> THEN TRUE
    ELSE IF t = <<>> THEN FALSE
    ELSE IF Head(s) = Head(t) THEN isSubseq(Tail(s), Tail(t))
    ELSE isSubseq(s, Tail(t))

ended == pstate \in {"returned", "panic"}

\* C17: a statement that fails to reduce is discarded and the parse goes
\* on: when the parse has ended, it has returned a tree, and every statement
\* that reduces to one resolved node is among the children of the root, in
\* the order of the source.
C17_DiscardAndContinue ==
    (ended /\ goodNodes # <<>>) => (returned /\ isSubseq(goodNodes, root.Children))

\* the lexemes are a comma list: operands with a comma between each two
isCommaList(its) ==
    /\ Len(its) >= 4 /\ Len(its) % 2 = 0
    /\ \A i \in 1..(Len(its) - 1) :
           IF i % 2 = 1 THEN its[i].Type \in Literals ELSE its[i].Type = "Comma"

\* the operands of a comma list, as leaves
operands(its) == [k \in 1..(Len(its) \div 2) |-> Node(its[2 * k - 1], TRUE, <<>>)]

commaNode(n) == n.Children # <<>> /\ n.Item.Type = "Comma"

\* no comma node has a comma node for a child
RECURSIVE FlatCommas(_)
FlatCommas(n) ==
    \A i \in 1..Len(n.Children) :
        /\ FlatCommas(n.Children[i])
        /\ commaNode(n) => ~commaNode(n.Children[i])

\* C18: a comma list of n >= 2 operands reduces to one comma node with
\* exactly the n operands as children, in the order of the source, and no
\* comma node is left nested in another; a comma group written in
\* parentheses stays a group of its own under the node of the parentheses.
C18_CommaList ==
    returned =>
        /\ FlatCommas(root)
        /\ isCommaList(pitems) =>
               /\ Len(root.Children) = 1
               /\ root.Children[1].Item.Type = "Comma"
               /\ root.Children[1].Resolved
               /\ root.Children[1].Children = operands(pitems)
        /\ pitems = Items(ProgGroupFirst) =>
               statements =
                   << tree(<<",">>,
                          << tree(<<"(">>, << tree(<<",">>, << leaf(<<"a">>), leaf(<<"b">>) >>) >>),
                             leaf(<<"c">>) >>) >>
        /\ pitems = Items(ProgGroupLast) =>
               statements =
                   << tree(<<",">>,
                          << leaf(<<"a">>),
                             tree(<<"(">>, << tree(<<",">>, << leaf(<<"b">>), leaf(<<"c">>) >>) >>)
                          >>) >>

C18_Witness ==
    /\ returned
    /\ pitems = Items(ProgFourOperands)
    /\ Len(root.Children) = 1
    /\ Len(root.Children[1].Children) = 4

\* the place of the close that matches an open bracket read just before
\* place i, counting the brackets of its kind only; 0 if there is none
RECURSIVE matching(_, _, _, _, _)
matching(its, i, depth, open, close) ==
    IF i > Len(its) THEN 0
    ELSE IF its[i].Type = close /\ depth = 1 THEN i
    ELSE IF its[i].Type = close THEN matching(its, i + 1, depth - 1, open, close)
    ELSE IF its[i].Type = open THEN matching(its, i + 1, depth + 1, open, close)
    ELSE matching(its, i + 1, depth, open, close)

closeOf(open) == IF open = "LeftBrace" THEN "RightBrace" ELSE "RightParen"

\* every bracket of its has its partner, and the pairs do not cross
RECURSIVE wellNestedFrom(_, _, _)
wellNestedFrom(its, i, expected) ==
    IF i > Len(its) THEN expected = <<>>
    ELSE IF its[i].Type \in {"LeftBrace", "LeftParen"}
    THEN wellNestedFrom(its, i + 1, <<closeOf(its[i].Type)>> \o expected)
    ELSE IF its[i].Type \in {"RightBrace", "RightParen"}
    THEN /\ expected # <<>>
         /\ Head(expected) = its[i].Type
         /\ wellNestedFrom(its, i + 1, Tail(expected))
    ELSE wellNestedFrom(its, i + 1, expected)

wellNested(its) == wellNestedFrom(its, 1, <<>>)

\* C19: the tokens from an open brace or parenthesis up to its matching
\* close become the statements of one resolved node that takes the place
\* of the region: when the brackets of the input are well nested and the
\* input starts with a bracket whose matching close ends the first
\* statement, the first child of the root is the node of the open bracket
\* with the statements of the tokens in between.
C19_RegionBecomesNode ==
    returned =>
        \A open \in {"LeftBrace", "LeftParen"} :
            LET j == matching(pitems, 2, 1, open, closeOf(open))
                region == parseItems(pitems[1], nodify(SubSeq(pitems, 2, j - 1)))
            IN  (/\ wellNested(pitems)
                 /\ pitems[1].Type = open /\ j # 0
                 /\ pitems[j + 1].Type \in {"Separator", "EOF"})
                    => /\ root.Children # <<>>
                       /\ region.ok
                       /\ root.Children[1] = region.node

\* the open brackets of the input without a matching close
unmatched(open) ==
    {i \in 1..Len(pitems) :
        pitems[i].Type = open /\ matching(pitems, i + 1, 1, open, closeOf(open)) = 0}

\* C20: every open brace or parenthesis without a matching close before the
\* end of the input is reported, also one nested in another and one
\* followed by an unmatched open bracket of the other kind.
C20_UnmatchedReported ==
    returned =>
        /\ \A i \in unmatched("LeftBrace") : reported("open brace without close", pitems[i])
        /\ \A i \in unmatched("LeftParen") : reported("open paren without close", pitems[i])


(***************************************************************************)
(* The pipeline of goroutines against the stages applied in turn.          *)
(***************************************************************************)

\* the stages applied one after the other to each statement in turn
sequential == parseItems(prog, nodify(noComment(pitems)))

\* the statements in the channels, the one furthest along first
inFlight ==
    LET RECURSIVE from(_)
        from(j) == IF j < 0 THEN <<>> ELSE pipe[j] \o from(j - 1)
    IN  from(Len(Jobs))

\* C21: whatever the scheduling of the stage goroutines, the tree the
\* channel pipeline returns is the tree of the stages applied in turn to
\* each statement, statements in the order of their tokens, with the same
\* reports; and the pipeline ends in a panic exactly when the stages
\* applied in turn do.
C21_PipelineIsSequential ==
    ended =>
        LET seq == sequential
        IN  /\ returned => /\ seq.ok
                           /\ root = seq.node
                           /\ plog = seq.log
            /\ pstate = "panic" => ~seq.ok

\* a tree of two different statements is returned
C21_Witness ==
    /\ returned
    /\ Len(root.Children) >= 2
    /\ root.Children[1] # root.Children[2]

\* two statements in two channels at the same time
C21_InFlight == pstate = "running" /\ Len(inFlight) >= 2 /\ stmts # <<>>


(***************************************************************************)
(* Part 3: the evaluator (package compile).                                *)
(*                                                                         *)
(* A Value is an interface{}: here a record whose field type is the        *)
(* dynamic type, as %T prints it, with the value in a field of its own.    *)
(***************************************************************************)

Nil == [type |-> "<nil>"]

int64(i) == [type |-> "int64", int |-> i]

NoErr == <<>>

(***************************************************************************)
(* Context: the heap holds every Context allocated; a *Context is its      *)
(* index in the heap, and the nil pointer is 0.                            *)
(***************************************************************************)

nil == 0

MaxCtx == 3         \* Contexts allocated in one run
MaxSets == 2        \* calls of Set in one run

Names == {"x", "y"}

EnvValues == {Nil, int64(1), int64(2)}

\* make(map[string]Value)
EmptyMap == [n \in {} |-> Nil]

Context(values, parent) == [values |-> values, parent |-> parent]

NewContextCopy(h, parent) ==
    Append(h, Context(IF parent = nil THEN EmptyMap ELSE h[parent].values, nil))

\* &Context{values: make(map[string]Value), parent: parent}, appended to
\* the heap: the pointer returned is Len(h) + 1
NewContext(h, parent) == Append(h, Context(EmptyMap, parent))

\* NewTopContext: NewContext(nil)
NewTopContext == NewContext(<<>>, nil)

SetAncestorsToo(h, ctx, name, value) ==
    LET RECURSIVE chain(_)
        chain(c) == IF c = nil THEN {} ELSE {c} \cup chain(h[c].parent)
        binders == {ctx} \cup {c \in chain(ctx) : name \in DOMAIN h[c].values}
    IN  [heap |-> [c \in 1..Len(h) |->
                     IF c \in binders
                     THEN Context([n \in DOMAIN h[c].values \cup {name} |->
                                     IF n = name THEN value ELSE h[c].values[n]],
                                  h[c].parent)
                     ELSE h[c]],
         ret |-> value, err |-> NoErr]

\* ctx.values[name] = value; return value, nil
Set(h, ctx, name, value) ==
    [heap |-> [h EXCEPT ![ctx].values =
                 [n \in DOMAIN @ \cup {name} |-> IF n = name THEN value ELSE @[n]]],
     ret |-> value, err |-> NoErr]

GetOwnOnly(h, ctx, name) ==
    IF ctx = nil THEN Nil
    ELSE IF name \notin DOMAIN h[ctx].values THEN Nil
    ELSE h[ctx].values[name]

\* Get: nil for the nil Context, the value of the map when the name is a
\* key of it, what the parent gets otherwise
RECURSIVE Get(_, _, _)
Get(h, ctx, name) ==
    IF ctx = nil THEN Nil
    ELSE IF name \notin DOMAIN h[ctx].values THEN Get(h, h[ctx].parent, name)
    ELSE h[ctx].values[name]

\* a call of a Context method: the heap before it, what it returned, and
\* how many calls of Set there have been
Call(op, ctx, name, value, ret, before, n) ==
    [op |-> op, ctx |-> ctx, name |-> name, value |-> value, ret |-> ret,
     before |-> before, n |-> n]

calls == IF called = <<>> THEN 0 ELSE called.n

EnvInit ==
    /\ input = <<>>
    /\ readErr = FALSE
    /\ pos = 0
    /\ backupBuffer = <<>>
    /\ current = <<>>
    /\ curLine = 1
    /\ curCol = 1
    /\ items = <<>>
    /\ lastItem = ZeroItem
    /\ state = "closed"
    /\ gotPoint = FALSE
    /\ tokens = <<>>
    /\ pitems = <<>>
    /\ nodes = <<>>
    /\ pipe = <<>>
    /\ stmts = <<>>
    /\ plog = {}
    /\ pstate = "idle"
    /\ ast = <<>>
    /\ heap = NewTopContext
    /\ called = <<>>
    /\ enode = <<>>
    /\ program = <<>>
    /\ result = <<>>
    /\ runs = <<>>
    /\ regionIdle
    /\ estate = "env"

\* NewContext(parent), for a parent allocated before or nil
newContext ==
    /\ estate = "env"
    /\ Len(heap) < MaxCtx
    /\ \E parent \in 0..Len(heap) :
          /\ heap' = NewContext(heap, parent)
          /\ called' = Call("NewContext", Len(heap) + 1, "", parent, Nil, heap, calls)
    /\ UNCHANGED <<enode, program, result, estate, runs, lexVars, parseVars, regionVars>>

\* ctx.Set(name, value)
set ==
    /\ estate = "env"
    /\ calls < MaxSets
    /\ \E ctx \in 1..Len(heap), name \in Names, value \in EnvValues :
          LET r == Set(heap, ctx, name, value)
          IN  /\ heap' = r.heap
              /\ called' = Call("Set", ctx, name, value, r.ret, heap, calls + 1)
    /\ UNCHANGED <<enode, program, result, estate, runs, lexVars, parseVars, regionVars>>

\* ctx.Get(name), the nil Context included
get ==
    /\ estate = "env"
    /\ \E ctx \in 0..Len(heap), name \in Names :
          called' = Call("Get", ctx, name, Nil, Get(heap, ctx, name), heap, calls)
    /\ UNCHANGED <<heap, enode, program, result, estate, runs, lexVars, parseVars, regionVars>>

EnvNext ==
    \/ newContext
    \/ set
    \/ get

EnvSpec == EnvInit /\ [][EnvNext]_vars


(***************************************************************************)
(* Properties of the Context.                                              *)
(***************************************************************************)

\* ctx, its parent, the parent of its parent, ... up to the last one
RECURSIVE chain(_, _)
chain(h, ctx) == IF ctx = nil THEN <<>> ELSE <<ctx>> \o chain(h, h[ctx].parent)

binds(h, ctx, name) == name \in DOMAIN h[ctx].values

\* the value of name in the nearest Context of the chain of ctx whose map
\* has the name, nil when there is none
nearest(h, ctx, name) ==
    LET up == chain(h, ctx)
        binders == {i \in 1..Len(up) : binds(h, up[i], name)}
    IN  IF binders = {} THEN Nil
        ELSE h[up[CHOOSE i \in binders : \A k \in binders : i <= k]].values[name]

ancestors(h, ctx) == {chain(h, ctx)[i] : i \in 2..Len(chain(h, ctx))}

isCall(op) == called # <<>> /\ called.op = op

\* C22: Get(name) returns the value the name has in the nearest Context
\* that binds it, from the receiver up the parent links, and nil when no
\* Context of the chain binds it (and for the nil Context); Get leaves the
\* heap as it was.
C22_GetNearest ==
    isCall("Get") =>
        /\ called.ret = nearest(called.before, called.ctx, called.name)
        /\ heap = called.before

\* Get on a Context that does not bind the name, whose parent binds it to
\* one value and whose grandparent binds it to another
C22_Witness ==
    /\ isCall("Get")
    /\ Len(chain(heap, called.ctx)) = 3
    /\ LET up == chain(heap, called.ctx)
       IN  /\ ~binds(heap, up[1], called.name)
           /\ binds(heap, up[2], called.name)
           /\ binds(heap, up[3], called.name)
           /\ heap[up[2]].values[called.name] # heap[up[3]].values[called.name]
           /\ called.ret = heap[up[2]].values[called.name]
           /\ called.ret # Nil

\* Get of a name no Context of the chain binds
C22_Unbound ==
    /\ isCall("Get")
    /\ called.ctx # nil
    /\ \A c \in 1..Len(heap) : ~binds(heap, c, called.name)
    /\ \E c \in 1..Len(heap) : heap[c].values # EmptyMap
    /\ called.ret = Nil

\* C23: Set(name, value) binds the name to the value in the map of the
\* receiver and changes nothing else: every other Context, every ancestor
\* that binds the name included, is as before, and so are the other names
\* and the parent of the receiver; afterwards Get(name) on the receiver
\* gives the value and Get(name) on every ancestor gives what it gave
\* before.  Set returns the value.
C23_SetOwnOnly ==
    isCall("Set") =>
        LET h == called.before
            ctx == called.ctx
            name == called.name
        IN  /\ Len(heap) = Len(h)
            /\ \A c \in 1..Len(h) : c # ctx => heap[c] = h[c]
            /\ heap[ctx].parent = h[ctx].parent
            /\ binds(heap, ctx, name) /\ heap[ctx].values[name] = called.value
            /\ \A n \in Names \ {name} :
                  /\ binds(heap, ctx, n) <=> binds(h, ctx, n)
                  /\ binds(h, ctx, n) => heap[ctx].values[n] = h[ctx].values[n]
            /\ Get(heap, ctx, name) = called.value
            /\ \A a \in ancestors(h, ctx) : Get(heap, a, name) = Get(h, a, name)
            /\ called.ret = called.value

\* Set of a name on a Context that did not bind it, while its parent binds
\* the name to another value
C23_Witness ==
    /\ isCall("Set")
    /\ heap[called.ctx].parent # nil
    /\ ~binds(called.before, called.ctx, called.name)
    /\ binds(heap, heap[called.ctx].parent, called.name)
    /\ Get(heap, heap[called.ctx].parent, called.name) # called.value
    /\ Get(heap, heap[called.ctx].parent, called.name) # Nil
    /\ called.value # Nil

\* C24: a Context made by NewContext has an empty map and a pointer to
\* its parent, and the parent is not touched; so at any time, whatever Set
\* has done to the parent since, Get on the child of a name the child does
\* not bind itself gives what Get on the parent gives now.
C24_ChildRefersToParent ==
    /\ isCall("NewContext") =>
          /\ heap = Append(called.before, heap[called.ctx])
          /\ heap[called.ctx].values = EmptyMap
          /\ heap[called.ctx].parent = called.value
    /\ \A c \in 1..Len(heap) : \A name \in Names :
          (heap[c].parent # nil /\ ~binds(heap, c, name)) =>
              Get(heap, c, name) = Get(heap, heap[c].parent, name)
    /\ isCall("Get") => called.ret = Get(heap, called.ctx, called.name)

\* Set on a parent changes the value of a name it had already when the
\* child was there, and Get on the child, which does not bind the name,
\* gives the new value
C24_Witness ==
    /\ isCall("Set")
    /\ binds(called.before, called.ctx, called.name)
    /\ called.before[called.ctx].values[called.name] # called.value
    /\ called.value # Nil
    /\ \E c \in 1..Len(called.before) :
          /\ called.before[c].parent = called.ctx
          /\ ~binds(heap, c, called.name)
          /\ Get(heap, c, called.name) = called.value


(***************************************************************************)
(* Values, flow changes and tuples.                                        *)
(***************************************************************************)

\* a float64 that is a whole number of tenths
float64(tenths) == [type |-> "float64", tenths |-> tenths]

string(runes) == [type |-> "string", runes |-> runes]

bool(b) == [type |-> "bool", b |-> b]

\* a []Value passed on as a Value
Values(values) == [type |-> "[]compile.Value", elems |-> values]

\* FlowChange{Type, Value}
FlowChange(t, value) == [type |-> "compile.FlowChange", Type |-> t, Value |-> value]

\* flowChange(v): the Type of a FlowChange, None for every other Value
flowChange(v) == IF v.type = "compile.FlowChange" THEN v.Type ELSE "None"

\* NewReturn(values...) of compile.go: the payload is the slice of the
\* arguments
compileNewReturn(values) == FlowChange("Return", Values(values))

\* NewReturn(values...) of the file of the flow changes
NewReturn(values) ==
    CASE Len(values) = 0 -> FlowChange("Return", Nil)
      [] Len(values) = 1 -> FlowChange("Return", values[1])
      [] OTHER -> FlowChange("Return", Values(values))

NewBreak == FlowChange("Break", Nil)

NewContinue == FlowChange("Continue", Nil)

\* NewTuple(values...)
NewTuple(values) == [type |-> "compile.Tuple", Values |-> values]


(***************************************************************************)
(* strconv.ParseInt, strconv.ParseFloat and strconv.Unquote on the text of *)
(* an item.  The text of a number begins with a digit and holds digits and *)
(* points only (lex number); of ParseFloat's value the first digit after   *)
(* the point is kept, as a number of tenths.                               *)
(***************************************************************************)

digit(r) ==
    CASE r = "0" -> 0 [] r = "1" -> 1 [] r = "2" -> 2 [] r = "3" -> 3
      [] r = "4" -> 4 [] r = "5" -> 5 [] r = "6" -> 6 [] r = "7" -> 7
      [] r = "8" -> 8 [] r = "9" -> 9

RECURSIVE decimal(_)
decimal(text) ==
    IF text = <<>> THEN 0
    ELSE 10 * decimal(SubSeq(text, 1, Len(text) - 1)) + digit(text[Len(text)])

allDigits(text) == \A i \in 1..Len(text) : isDigit(text[i])

\* strconv.ParseInt(text, 10, 64)
ParseInt(text) ==
    IF text # <<>> /\ allDigits(text)
    THEN [ok |-> TRUE, v |-> decimal(text)]
    ELSE [ok |-> FALSE, v |-> 0]

\* strconv.ParseFloat(text, 64)
ParseFloat(text) ==
    LET points == {i \in 1..Len(text) : text[i] = "."}
        point == CHOOSE i \in points : TRUE
        whole == SubSeq(text, 1, point - 1)
        frac == SubSeq(text, point + 1, Len(text))
    IN  IF text # <<>> /\ allDigits(text)
        THEN [ok |-> TRUE, v |-> 10 * decimal(text)]
        ELSE IF /\ Cardinality(points) = 1
                /\ allDigits(whole) /\ allDigits(frac)
                /\ whole \o frac # <<>>
        THEN [ok |-> TRUE,
              v |-> 10 * decimal(whole) + (IF frac = <<>> THEN 0 ELSE digit(frac[1]))]
        ELSE [ok |-> FALSE, v |-> 0]

\* the escapes of a quoted string: \\ \" \' \n \t
RECURSIVE unescape(_, _)
unescape(in, quote) ==
    IF in = <<>> THEN [ok |-> TRUE, out |-> <<>>]
    ELSE IF in[1] = quote \/ in[1] = "\n" THEN [ok |-> FALSE, out |-> <<>>]
    ELSE IF in[1] # "\\"
    THEN LET rest == unescape(Tail(in), quote)
         IN  [ok |-> rest.ok, out |-> <<in[1]>> \o rest.out]
    ELSE IF Len(in) < 2 THEN [ok |-> FALSE, out |-> <<>>]
    ELSE LET c == in[2]
             r == CASE c = "n" -> <<"\n">>
                    [] c = "t" -> <<"\t">>
                    [] c = "\\" -> <<"\\">>
                    [] c = quote -> <<quote>>
                    [] OTHER -> <<>>
             rest == unescape(SubSeq(in, 3, Len(in)), quote)
         IN  [ok |-> r # <<>> /\ rest.ok, out |-> r \o rest.out]

\* strconv.Unquote(text)
Unquote(text) ==
    IF Len(text) < 2 \/ text[1] # text[Len(text)] THEN [ok |-> FALSE, v |-> <<>>]
    ELSE LET quote == text[1]
             in == SubSeq(text, 2, Len(text) - 1)
             u == unescape(in, quote)
         IN  CASE quote = backtick ->
                    [ok |-> \A i \in 1..Len(in) : in[i] # backtick,
                     v |-> SelectSeq(in, LAMBDA r : r # "\r")]
               [] quote = "\"" -> [ok |-> u.ok, v |-> u.out]
               [] quote = "'" -> [ok |-> u.ok /\ Len(u.out) = 1, v |-> u.out]
               [] OTHER -> [ok |-> FALSE, v |-> <<>>]

(***************************************************************************)
(* Expr: a closure is the record of the function it is and of the          *)
(* variables it closes over.                                               *)
(***************************************************************************)

\* the nil Expr
NilExpr == [kind |-> "nil"]

valFuncCounting(val) == [kind |-> "valFunc", val |-> int64(Len(runs))]

Noop == [kind |-> "Noop"]

valFunc(val) == [kind |-> "valFunc", val |-> val]

\* the closure compilePlus returns, over left, right and node
plusExpr(left, right, node) ==
    [kind |-> "compilePlus", left |-> left, right |-> right, node |-> node]

\* the closure compileBlock returns, over stmts
blockExpr(exprs) == [kind |-> "compileBlock", stmts |-> exprs]

\* an error: fmt.Errorf with the item it is about and, for the operator,
\* the two %T
Errorf(msg, item, types) == [msg |-> msg, item |-> item, types |-> types]

\* what a CompilerFunc returns; ok is FALSE when it panics instead
Compiled(expr, err) == [ok |-> TRUE, expr |-> expr, err |-> err]

CompilePanic == [ok |-> FALSE, expr |-> NilExpr, err |-> NoErr]

compileIdent(node) ==
    CASE node.Item.Value = <<"t", "r", "u", "e">> -> Compiled(valFunc(bool(TRUE)), NoErr)
      [] node.Item.Value = <<"f", "a", "l", "s", "e">> -> Compiled(valFunc(bool(FALSE)), NoErr)
      [] node.Item.Value = <<"n", "i", "l">> -> Compiled(valFunc(Nil), NoErr)
      [] OTHER -> Compiled(Noop, Errorf("failed to compile identifier", node.Item, <<>>))

compileNumber(node) ==
    LET i == ParseInt(node.Item.Value)
        f == ParseFloat(node.Item.Value)
    IN  IF i.ok THEN Compiled(valFunc(int64(i.v)), NoErr)
        ELSE IF f.ok THEN Compiled(valFunc(float64(f.v)), NoErr)
        ELSE Compiled(Noop, Errorf("failed to convert number", node.Item, <<>>))

compileString(node) ==
    LET s == Unquote(node.Item.Value)
    IN  IF ~s.ok
        THEN Compiled(NilExpr, Errorf("failed to convert string", node.Item, <<>>))
        ELSE Compiled(valFunc(string(s.v)), NoErr)

\* compilerForType
CompilerTypes ==
    {"LeftBrace", "Ident", "Number", "Plus",
     "BacktickString", "DoubleQuoteString", "SingleQuoteString"}

RECURSIVE Compile(_)
RECURSIVE compilePlus(_)
RECURSIVE compileBlock(_)

Compile(node) ==
    LET t == node.Item.Type
    IN  CASE t \notin CompilerTypes ->
                Compiled(NilExpr, Errorf("cannot compile", node.Item, <<>>))
          [] t = "LeftBrace" -> compileBlock(node)
          [] t = "Ident" -> compileIdent(node)
          [] t = "Number" -> compileNumber(node)
          [] t = "Plus" -> compilePlus(node)
          [] OTHER -> compileString(node)

\* node.Children[0] and node.Children[1]: index out of range without them
compilePlus(node) ==
    IF Len(node.Children) < 1 THEN CompilePanic
    ELSE LET left == Compile(node.Children[1])
         IN  IF ~left.ok THEN CompilePanic
             ELSE IF left.err # NoErr THEN Compiled(NilExpr, left.err)
             ELSE IF Len(node.Children) < 2 THEN CompilePanic
             ELSE LET right == Compile(node.Children[2])
                  IN  IF ~right.ok THEN CompilePanic
                      ELSE IF right.err # NoErr THEN Compiled(NilExpr, right.err)
                      ELSE Compiled(plusExpr(left.expr, right.expr, node), NoErr)

compileBlock(node) ==
    LET RECURSIVE loop(_, _)
        loop(k, exprs) ==
            IF k > Len(node.Children) THEN Compiled(blockExpr(exprs), NoErr)
            ELSE LET e == Compile(node.Children[k])
                 IN  IF ~e.ok THEN CompilePanic
                     ELSE IF e.err # NoErr THEN Compiled(NilExpr, e.err)
                     ELSE loop(k + 1, Append(exprs, e.expr))
    IN  loop(1, <<>>)


(***************************************************************************)
(* Invoking an Expr.  What a call returns is the Value and the error, and, *)
(* for the properties, the calls made, in the order they began: a call is  *)
(* named by its place in the closure tree, <<>> for the root, p \o <<k>>    *)
(* for the k-th closure the closure at p holds.                            *)
(***************************************************************************)

gotIntsNever(i, j) == [ok |-> FALSE, v1 |-> 0, v2 |-> 0]

gotInts(i, j) ==
    IF i.type = "int64" /\ j.type = "int64"
    THEN [ok |-> TRUE, v1 |-> i.int, v2 |-> j.int]
    ELSE [ok |-> FALSE, v1 |-> 0, v2 |-> 0]

\* float64(ii): an int64 as a number of tenths
gotFloats(i, j) ==
    LET iv == IF i.type = "int64" THEN 10 * i.int ELSE i.tenths
        jv == IF j.type = "int64" THEN 10 * j.int ELSE j.tenths
    IN  IF i.type \notin {"int64", "float64"} THEN [ok |-> FALSE, v1 |-> 0, v2 |-> 0]
        ELSE IF j.type \notin {"int64", "float64"} THEN [ok |-> FALSE, v1 |-> 0, v2 |-> 0]
        ELSE [ok |-> TRUE, v1 |-> iv, v2 |-> jv]

gotStrings(i, j) ==
    IF i.type = "string" /\ j.type = "string"
    THEN [ok |-> TRUE, v1 |-> i.runes, v2 |-> j.runes]
    ELSE [ok |-> FALSE, v1 |-> <<>>, v2 |-> <<>>]

\* what a call of an Expr returns
Returned(value, err, trace) == [value |-> value, err |-> err, trace |-> trace]

\* the three ifs of the closure of compilePlus on the values of its operands
plusValues(node, lVal, rVal) ==
    LET ints == gotInts(lVal, rVal)
        floats == gotFloats(lVal, rVal)
        strings == gotStrings(lVal, rVal)
    IN  IF ints.ok THEN [value |-> int64(ints.v1 + ints.v2), err |-> NoErr]
        ELSE IF floats.ok THEN [value |-> float64(floats.v1 + floats.v2), err |-> NoErr]
        ELSE IF strings.ok THEN [value |-> string(strings.v1 \o strings.v2), err |-> NoErr]
        ELSE [value |-> Nil,
              err |-> Errorf("cannot apply operator to argument types",
                             node.Item, <<lVal.type, rVal.type>>)]

RECURSIVE invoke(_, _)
RECURSIVE invokePlus(_, _)
RECURSIVE invokePlusBothOperands(_, _)
RECURSIVE invokeBlock(_, _)
RECURSIVE invokeBlockNoFlowChange(_, _)

invokePlusBothOperands(e, at) ==
    LET l == invoke(e.left, at \o <<1>>)
        r == invoke(e.right, at \o <<2>>)
        v == plusValues(e.node, l.value, r.value)
    IN  IF l.err # NoErr THEN Returned(Nil, l.err, (<<at>> \o l.trace) \o r.trace)
        ELSE IF r.err # NoErr THEN Returned(Nil, r.err, (<<at>> \o l.trace) \o r.trace)
        ELSE Returned(v.value, v.err, (<<at>> \o l.trace) \o r.trace)

\* the closure of compilePlus
invokePlus(e, at) ==
    LET l == invoke(e.left, at \o <<1>>)
    IN  IF l.err # NoErr THEN Returned(Nil, l.err, <<at>> \o l.trace)
        ELSE LET r == invoke(e.right, at \o <<2>>)
                 v == plusValues(e.node, l.value, r.value)
             IN  IF r.err # NoErr
                 THEN Returned(Nil, r.err, (<<at>> \o l.trace) \o r.trace)
                 ELSE Returned(v.value, v.err, (<<at>> \o l.trace) \o r.trace)

invokeBlockNoFlowChange(e, at) ==
    LET RECURSIVE loop(_, _, _)
        loop(k, lastVal, trace) ==
            IF k > Len(e.stmts) THEN Returned(NewTuple(<<bool(TRUE), lastVal>>), NoErr, trace)
            ELSE LET r == invoke(e.stmts[k], at \o <<k>>)
                 IN  IF r.err # NoErr THEN Returned(Nil, r.err, trace \o r.trace)
                     ELSE loop(k + 1, r.value, trace \o r.trace)
    IN  loop(1, Nil, <<at>>)

\* the closure of compileBlock
invokeBlock(e, at) ==
    LET RECURSIVE loop(_, _, _)
        loop(k, lastVal, trace) ==
            IF k > Len(e.stmts) THEN Returned(NewTuple(<<bool(TRUE), lastVal>>), NoErr, trace)
            ELSE LET r == invoke(e.stmts[k], at \o <<k>>)
                 IN  IF r.err # NoErr THEN Returned(Nil, r.err, trace \o r.trace)
                     ELSE IF flowChange(r.value) # "None"
                     THEN Returned(r.value, NoErr, trace \o r.trace)
                     ELSE loop(k + 1, r.value, trace \o r.trace)
    IN  loop(1, Nil, <<at>>)

invoke(e, at) ==
    CASE e.kind = "valFunc" -> Returned(e.val, NoErr, <<at>>)
      [] e.kind = "Noop" -> Returned(Nil, NoErr, <<at>>)
      [] e.kind = "compilePlus" -> invokePlus(e, at)
      [] e.kind = "compileBlock" -> invokeBlock(e, at)


(***************************************************************************)
(* The programs the evaluator is given: the trees the parser makes of      *)
(* short inputs, and the blocks of statement closures that return a fixed  *)
(* Value, a FlowChange included.                                           *)
(***************************************************************************)

MaxEval == 3        \* longest input over EvalAlphabet
MaxBlock == 3       \* statements of a block of closures

\* the Type of an item for the compiler: every word is an Ident
evalItemType(text) ==
    IF text[1] = "\"" THEN "DoubleQuoteString"
    ELSE IF text[1] = "'" THEN "SingleQuoteString"
    ELSE IF text[1] = backtick THEN "BacktickString"
    ELSE IF isLetter(text[1]) THEN "Ident"
    ELSE itemType(text)

EvalItems(texts) ==
    [i \in 1..Len(texts) |-> Item(evalItemType(texts[i]), texts[i], 1, i)]
        \o <<Item("EOF", <<RuneError>>, 1, Len(texts) + 1)>>

EvalAlphabet ==
    {<<"1">>, <<"1", ".", "5">>, <<"\"", "a", "\"">>, <<"t", "r", "u", "e">>,
     <<"x">>, <<"+">>, <<";">>, <<"{">>, <<"}">>}

\* 1 + 2
ProgOnePlusTwo == << <<"1">>, <<"+">>, <<"2">> >>

\* 1 + "a"
ProgOnePlusString == << <<"1">>, <<"+">>, <<"\"", "a", "\"">> >>

\* true + 1 + { 2 }
ProgLeftFails == << <<"t", "r", "u", "e">>, <<"+">>, <<"1">>, <<"+">>, <<"{">>, <<"2">>, <<"}">> >>

\* 1 ; nil + 1 ; 2
ProgSecondFails == << <<"1">>, <<";">>, <<"n", "i", "l">>, <<"+">>, <<"1">>, <<";">>, <<"2">> >>

\* 1 ; 1.2.3
ProgBadNumber == << <<"1">>, <<";">>, <<"1", ".", "2", ".", "3">> >>

\* 'ab' ; false
ProgBadString == << <<"'", "a", "b", "'">>, <<";">>, <<"f", "a", "l", "s", "e">> >>

\* x = 1 { x = x + 1 } x, on one line: the lexer emits a separator only
\* for a semicolon or a line break, so there is none among the items
ProgBlockScope ==
    << <<"x">>, <<"=">>, <<"1">>, <<"{">>, <<"x">>, <<"=">>, <<"x">>, <<"+">>, <<"1">>,
       <<"}">>, <<"x">> >>

\* x = 1 ; { x = x + 1 } ; x
ProgBlockScopeSeparated ==
    << <<"x">>, <<"=">>, <<"1">>, <<";">>, <<"{">>, <<"x">>, <<"=">>, <<"x">>, <<"+">>,
       <<"1">>, <<"}">>, <<";">>, <<"x">> >>

EvalPrograms ==
    {ProgOnePlusTwo, ProgOnePlusString, ProgLeftFails, ProgSecondFails,
     ProgBadNumber, ProgBadString, ProgBlockScope, ProgBlockScopeSeparated}

EvalInputs == SeqsUpTo(EvalAlphabet, MaxEval) \cup EvalPrograms

\* what Parse makes of the items of an input
Parsed(texts) == parseItems(prog, nodify(noComment(EvalItems(texts))))

StmtValues == {Nil, int64(1)}

\* the values given to NewReturn: none, one, two, three
ReturnArgs ==
    {<<>>, <<int64(1)>>, <<string(<<"a">>)>>,
     <<int64(1), string(<<"a">>)>>, <<string(<<"a">>), int64(1)>>,
     <<int64(1), Nil, string(<<"a">>)>>}

\* a call of NewReturn, NewBreak, NewContinue or valFunc
Made(op, args, ret) == [op |-> op, args |-> args, ret |-> ret]

EvalInit ==
    /\ input = <<>>
    /\ readErr = FALSE
    /\ pos = 0
    /\ backupBuffer = <<>>
    /\ current = <<>>
    /\ curLine = 1
    /\ curCol = 1
    /\ items = <<>>
    /\ lastItem = ZeroItem
    /\ state = "closed"
    /\ gotPoint = FALSE
    /\ tokens = <<>>
    /\ pitems = <<>>
    /\ nodes = <<>>
    /\ pipe = <<>>
    /\ stmts = <<>>
    /\ plog = {}
    /\ pstate = "idle"
    /\ ast = <<>>
    /\ heap = NewTopContext
    /\ called = <<>>
    /\ result = <<>>
    /\ runs = <<>>
    /\ regionIdle
    /\ \/ /\ estate = "parsed"
          /\ \E texts \in EvalInputs :
                /\ Parsed(texts).ok
                /\ enode = Parsed(texts).node
          /\ program = <<>>
       \/ /\ estate = "closures"
          /\ enode = <<>>
          /\ program = Compiled(blockExpr(<<>>), NoErr)

\* program, err := compile.Compile(parsed)
compile ==
    /\ estate = "parsed"
    /\ LET c == Compile(enode)
       IN  /\ program' = c
           /\ estate' = IF ~c.ok THEN "panic"
                        ELSE IF c.err # NoErr THEN "failed" ELSE "compiled"
    /\ UNCHANGED <<heap, called, enode, result, runs, lexVars, parseVars, regionVars>>

\* the block closure with one more statement closure
withStmt(p, expr) == Compiled(blockExpr(Append(p.expr.stmts, expr)), NoErr)

building == estate = "closures" /\ Len(program.expr.stmts) < MaxBlock

\* valFunc(val)
valueStmt ==
    /\ building
    /\ \E val \in StmtValues :
          /\ program' = withStmt(program, valFunc(val))
          /\ called' = Made("valFunc", <<val>>, val)
    /\ UNCHANGED <<heap, enode, result, estate, runs, lexVars, parseVars, regionVars>>

\* valFunc(NewReturn(values...)), with the NewReturn of either file
returnStmt ==
    /\ building
    /\ \E values \in ReturnArgs :
          \E signal \in {NewReturn(values), compileNewReturn(values)} :
              /\ program' = withStmt(program, valFunc(signal))
              /\ called' = Made("NewReturn", values, signal)
    /\ UNCHANGED <<heap, enode, result, estate, runs, lexVars, parseVars, regionVars>>

\* valFunc(NewBreak())
breakStmt ==
    /\ building
    /\ program' = withStmt(program, valFunc(NewBreak))
    /\ called' = Made("NewBreak", <<>>, NewBreak)
    /\ UNCHANGED <<heap, enode, result, estate, runs, lexVars, parseVars, regionVars>>

\* valFunc(NewContinue())
continueStmt ==
    /\ building
    /\ program' = withStmt(program, valFunc(NewContinue))
    /\ called' = Made("NewContinue", <<>>, NewContinue)
    /\ UNCHANGED <<heap, enode, result, estate, runs, lexVars, parseVars, regionVars>>

\* the closure of nil + 1, which returns an error
FailingNode ==
    Node(Item("Plus", <<"+">>, 1, 2), TRUE,
         <<Node(Item("Ident", <<"n", "i", "l">>, 1, 1), TRUE, <<>>),
           Node(Item("Number", <<"1">>, 1, 3), TRUE, <<>>)>>)

failingStmt ==
    /\ building
    /\ program' = withStmt(program, Compile(FailingNode).expr)
    /\ called' = Made("Compile", <<>>, Nil)
    /\ UNCHANGED <<heap, enode, result, estate, runs, lexVars, parseVars, regionVars>>

\* result, err := program(ctx)
invokeProgram ==
    /\ estate \in {"compiled", "closures"}
    /\ result' = invoke(program.expr, <<>>)
    /\ estate' = "invoked"
    /\ UNCHANGED <<heap, called, enode, program, runs, lexVars, parseVars, regionVars>>

EvalNext ==
    \/ compile
    \/ valueStmt
    \/ returnStmt
    \/ breakStmt
    \/ continueStmt
    \/ failingStmt
    \/ invokeProgram

EvalSpec == EvalInit /\ [][EvalNext]_vars


(***************************************************************************)
(* Properties of the evaluator.                                            *)
(***************************************************************************)

compiled == estate \in {"compiled", "closures", "invoked"}

invoked == estate = "invoked"

\* the closure e and every closure it holds
RECURSIVE closures(_)
closures(e) ==
    {e} \cup
    CASE e.kind = "compilePlus" -> closures(e.left) \cup closures(e.right)
      [] e.kind = "compileBlock" -> UNION {closures(e.stmts[k]) : k \in 1..Len(e.stmts)}
      [] OTHER -> {}

plusClosures == {e \in closures(program.expr) : e.kind = "compilePlus"}

isNumber(v) == v.type \in {"int64", "float64"}

\* a number as a float64, in tenths
promoted(v) == IF v.type = "int64" THEN 10 * v.int ELSE v.tenths

\* C25: the closure of + on the values l and r of its operands: two int64
\* give the int64 sum; failing that, two numbers (int64 or float64) give
\* the float64 sum of the two as float64; failing that, two strings give
\* the first followed by the second; any other pair gives no value and an
\* error that names the type of l and the type of r.
C25_PlusDispatch ==
    compiled =>
        \A e \in plusClosures :
            LET l == invoke(e.left, <<1>>)
                r == invoke(e.right, <<2>>)
                res == invoke(e, <<>>)
            IN  (l.err = NoErr /\ r.err = NoErr) =>
                    CASE l.value.type = "int64" /\ r.value.type = "int64" ->
                            /\ res.value = int64(l.value.int + r.value.int)
                            /\ res.err = NoErr
                      [] isNumber(l.value) /\ isNumber(r.value) ->
                            /\ res.value = float64(promoted(l.value) + promoted(r.value))
                            /\ res.err = NoErr
                      [] l.value.type = "string" /\ r.value.type = "string" ->
                            /\ res.value = string(l.value.runes \o r.value.runes)
                            /\ res.err = NoErr
                      [] OTHER ->
                            /\ res.value = Nil
                            /\ res.err # NoErr
                            /\ res.err.msg = "cannot apply operator to argument types"
                            /\ res.err.types = <<l.value.type, r.value.type>>

\* the last statement value of the tuple a block returned
lastValue == result.value.Values[2]

\* the program is the one statement l + r
isSum(l, r) ==
    /\ enode # <<>>
    /\ Len(enode.Children) = 1
    /\ enode.Children[1].Item.Type = "Plus"
    /\ Len(enode.Children[1].Children) = 2
    /\ enode.Children[1].Children[1].Item.Value = l
    /\ enode.Children[1].Children[2].Item.Value = r

\* 1 + 1.5 has returned (true, 2.5)
C25_Witness ==
    /\ invoked
    /\ isSum(<<"1">>, <<"1", ".", "5">>)
    /\ result = Returned(NewTuple(<<bool(TRUE), float64(25)>>), NoErr, result.trace)

\* 1 + 1 has returned (true, 2)
C25_Ints ==
    /\ invoked
    /\ isSum(<<"1">>, <<"1">>)
    /\ lastValue = int64(2)

\* "a" + "a" has returned (true, "aa")
C25_Strings ==
    /\ invoked
    /\ isSum(<<"\"", "a", "\"">>, <<"\"", "a", "\"">>)
    /\ lastValue = string(<<"a", "a">>)

\* 1 + "a" has returned the error with int64 and string
C25_TypeError ==
    /\ invoked
    /\ isSum(<<"1">>, <<"\"", "a", "\"">>)
    /\ result.value = Nil
    /\ result.err # NoErr
    /\ result.err.types = <<"int64", "string">>


blockClosures == {e \in closures(program.expr) : e.kind = "compileBlock"}

isSignal(v) == v.type = "compile.FlowChange"

\* the calls of the statements of a block among the calls of a trace
stmtCalls(trace) == SelectSeq(trace, LAMBDA at : Len(at) = 1)

upTo(m) == IF m = 0 THEN <<>> ELSE [k \in 1..m |-> <<k>>]

\* what statement k of the block returns
stmtOut(e, k) == invoke(e.stmts[k], <<k>>)

\* the statements of the block that return an error or a signal
stops(e) ==
    {k \in 1..Len(e.stmts) : stmtOut(e, k).err # NoErr \/ isSignal(stmtOut(e, k).value)}

\* the last statement the block reaches
lastReached(e) ==
    IF stops(e) = {} THEN Len(e.stmts)
    ELSE CHOOSE k \in stops(e) : \A j \in stops(e) : k <= j

\* the block closure e has returned res: its statements were called in
\* source order up to the first that returned a signal, which is then what
\* the block returned, without error; with no signal and no error it
\* returned (true, value of the last statement)
blockReturns(e, res) ==
    LET n == Len(e.stmts)
        m == lastReached(e)
    IN  /\ stmtCalls(res.trace) = upTo(m)
        /\ (stops(e) = {}) =>
              /\ res.value = NewTuple(<<bool(TRUE), IF n = 0 THEN Nil ELSE stmtOut(e, n).value>>)
              /\ res.err = NoErr
        /\ (stops(e) # {} /\ stmtOut(e, m).err = NoErr) =>
              /\ res.value = stmtOut(e, m).value
              /\ isSignal(res.value)
              /\ res.err = NoErr

\* C26: a block closure calls its statements in source order; the first
\* statement whose value is a flow change ends the block, which returns
\* that value and no error and calls no later statement; without one the
\* block returns the tuple (true, value of the last statement), (true, nil)
\* when it has no statement.  1 + 2 in a new top Context gives (true, 3).
C26_BlockEvaluation ==
    /\ compiled => \A e \in blockClosures : blockReturns(e, invoke(e, <<>>))
    /\ invoked => blockReturns(program.expr, result)
    /\ (invoked /\ isSum(<<"1">>, <<"2">>)) =>
          /\ heap = NewTopContext
          /\ result.value = NewTuple(<<bool(TRUE), int64(3)>>)
          /\ result.err = NoErr

\* a block of three statements of which the second returns Break has
\* returned Break after two calls
C26_Witness ==
    /\ invoked
    /\ enode = <<>>
    /\ Len(program.expr.stmts) = 3
    /\ ~isSignal(program.expr.stmts[1].val)
    /\ program.expr.stmts[2] = valFunc(NewBreak)
    /\ result.value = NewBreak
    /\ result.err = NoErr
    /\ stmtCalls(result.trace) = <<<<1>>, <<2>>>>

\* the empty program has returned (true, nil)
C26_Empty ==
    /\ invoked
    /\ enode # <<>>
    /\ enode.Children = <<>>
    /\ result.value = NewTuple(<<bool(TRUE), Nil>>)

\* 1 + 2 has returned (true, 3)
C26_OnePlusTwo ==
    /\ invoked
    /\ isSum(<<"1">>, <<"2">>)
    /\ result.value = NewTuple(<<bool(TRUE), int64(3)>>)


\* the calls of a trace made under the k-th closure of the root
under(trace, k) == SelectSeq(trace, LAMBDA at : Len(at) >= 1 /\ at[1] = k)

\* the closure of + has returned res: an error of the left operand is what
\* it returned, and the right operand was not called; an error of the
\* right operand is what it returned
plusPropagates(e, res) ==
    LET l == invoke(e.left, <<1>>)
        r == invoke(e.right, <<2>>)
    IN  /\ l.err # NoErr =>
              /\ res.err = l.err
              /\ res.value = Nil
              /\ under(res.trace, 2) = <<>>
              /\ res.trace = <<<<>>>> \o l.trace
        /\ (l.err = NoErr /\ r.err # NoErr) =>
              /\ res.err = r.err
              /\ res.value = Nil

\* the block closure has returned res: an error of statement k is what it
\* returned, with no value, and no statement after k was called
blockPropagates(e, res) ==
    LET m == lastReached(e)
    IN  (stops(e) # {} /\ stmtOut(e, m).err # NoErr) =>
            /\ res.err = stmtOut(e, m).err
            /\ res.value = Nil
            /\ stmtCalls(res.trace) = upTo(m)
            /\ \A k \in (m + 1)..Len(e.stmts) : under(res.trace, k) = <<>>

\* C27: the error a closure gets from a closure it calls is the error it
\* returns, as it is and at once: + with an error from its left operand
\* does not call its right operand, and a block with an error from
\* statement k calls no statement after k and returns no tuple.
C27_ErrorPropagation ==
    /\ compiled =>
          /\ \A e \in plusClosures : plusPropagates(e, invoke(e, <<>>))
          /\ \A e \in blockClosures : blockPropagates(e, invoke(e, <<>>))
    /\ invoked =>
          /\ blockPropagates(program.expr, result)
          /\ result.err # NoErr => result.err.msg = "cannot apply operator to argument types"

\* true + 1 + { 2 }: the error of true + 1 has come out of the program, and
\* the block { 2 } was not called
C27_Witness ==
    /\ invoked
    /\ enode # <<>>
    /\ Len(enode.Children) = 1
    /\ program.expr.stmts[1].kind = "compilePlus"
    /\ program.expr.stmts[1].left.kind = "compilePlus"
    /\ program.expr.stmts[1].right.kind = "compileBlock"
    /\ result.err = invoke(program.expr.stmts[1].left, <<1, 1>>).err
    /\ result.err.types = <<"bool", "int64">>
    /\ result.value = Nil
    /\ result.trace = <<<<>>, <<1>>, <<1, 1>>, <<1, 1, 1>>, <<1, 1, 2>>>>

\* 1 ; nil + 1 ; 2: the error of the second statement has come out of the
\* program, and the third statement was not called
C27_Block ==
    /\ invoked
    /\ enode # <<>>
    /\ Len(enode.Children) = 3
    /\ result.err # NoErr
    /\ result.err.types = <<"<nil>", "int64">>
    /\ result.value = Nil
    /\ stmtCalls(result.trace) = <<<<1>>, <<2>>>>


\* the Values every closure of the program returns
returnedValues == {invoke(e, <<>>).value : e \in closures(program.expr)}

\* C28: the payload of a Return signal goes by the number of values given
\* to NewReturn: nil for none, the value itself for one, the sequence of
\* the values in order for two or more; Break and Continue carry nil; and
\* flowChange gives None for every Value that is not a FlowChange, and the
\* Type of one that is.
C28_ReturnPayload ==
    /\ isCall("NewReturn") =>
          /\ called.ret.Type = "Return"
          /\ flowChange(called.ret) = "Return"
          /\ Len(called.args) = 0 => called.ret.Value = Nil
          /\ Len(called.args) = 1 => called.ret.Value = called.args[1]
          /\ Len(called.args) >= 2 => called.ret.Value = Values(called.args)
    /\ isCall("NewBreak") =>
          called.ret.Value = Nil /\ flowChange(called.ret) = "Break"
    /\ isCall("NewContinue") =>
          called.ret.Value = Nil /\ flowChange(called.ret) = "Continue"
    /\ compiled =>
          \A v \in returnedValues : ~isSignal(v) => flowChange(v) = "None"

\* the same for the NewReturn of the file of the flow changes alone
C28_FlowFile ==
    \A values \in ReturnArgs :
        /\ NewReturn(values).Type = "Return"
        /\ Len(values) = 0 => NewReturn(values).Value = Nil
        /\ Len(values) = 1 => NewReturn(values).Value = values[1]
        /\ Len(values) >= 2 => NewReturn(values).Value = Values(values)

\* NewReturn of compile.go was given one value
C28_OneValueSlice ==
    /\ isCall("NewReturn")
    /\ Len(called.args) = 1
    /\ called.ret.Value = Values(called.args)


\* the node n and every node under it
RECURSIVE subnodes(_)
subnodes(n) == {n} \cup UNION {subnodes(n.Children[k]) : k \in 1..Len(n.Children)}

\* Compile has been called on the parsed program
compileCalled == enode # <<>> /\ estate # "parsed"

\* C29: Compile gives a closure or an error, never both and never
\* neither: for every node of the tree, whatever its type, Compile returns,
\* with a nil Expr when it returns an error and a non-nil Expr when it
\* does not.
C29_AllOrNothing ==
    compileCalled =>
        \A n \in subnodes(enode) :
            LET c == Compile(n)
            IN  /\ c.ok
                /\ c.err # NoErr => c.expr = NilExpr
                /\ c.err = NoErr => c.expr # NilExpr

\* the same for the Compile of the whole program, which is a block
C29_Program ==
    (compileCalled /\ program.ok) =>
        /\ program.err # NoErr => program.expr = NilExpr
        /\ program.err = NoErr => program.expr # NilExpr

\* Compile of a node has returned the closure Noop together with an error
C29_NoopWithError ==
    /\ estate = "failed"
    /\ \E n \in subnodes(enode) : Compile(n).expr = Noop /\ Compile(n).err # NoErr

\* Compile has ended in a panic
C29_Panic == estate = "panic" /\ ~program.ok

Reserved == {<<"t", "r", "u", "e">>, <<"f", "a", "l", "s", "e">>, <<"n", "i", "l">>}

identNodes == {n \in subnodes(enode) : n.Item.Type = "Ident"}

\* the Value a reserved word stands for
fixedValue(name) ==
    CASE name = <<"t", "r", "u", "e">> -> bool(TRUE)
      [] name = <<"f", "a", "l", "s", "e">> -> bool(FALSE)
      [] name = <<"n", "i", "l">> -> Nil

\* C30: an Ident node compiles without error; the closure of true, false
\* and nil returns the fixed value, and the closure of any other name
\* returns what Get gives for the name in the Context, so nil for a name
\* never assigned.
C30_IdentLookup ==
    compileCalled =>
        \A n \in identNodes :
            LET c == Compile(n)
            IN  /\ c.ok /\ c.err = NoErr
                /\ c.expr # NilExpr
                /\ invoke(c.expr, <<>>).err = NoErr
                /\ invoke(c.expr, <<>>).value =
                       IF n.Item.Value \in Reserved THEN fixedValue(n.Item.Value)
                       ELSE Get(heap, 1, n.Item.Value)

\* the half of it about the reserved words
C30_ReservedWords ==
    compileCalled =>
        \A n \in identNodes :
            n.Item.Value \in Reserved =>
                /\ Compile(n).err = NoErr
                /\ invoke(Compile(n).expr, <<>>) = Returned(fixedValue(n.Item.Value), NoErr, <<<<>>>>)

\* the program x has failed to compile
C30_NameFails ==
    /\ estate = "failed"
    /\ Len(enode.Children) = 1
    /\ enode.Children[1].Item.Value = <<"x">>
    /\ program.err.msg = "failed to compile identifier"

\* true has been evaluated
C30_True ==
    /\ invoked
    /\ enode # <<>>
    /\ Len(enode.Children) = 1
    /\ enode.Children[1].Item.Value = <<"t", "r", "u", "e">>
    /\ result.value = NewTuple(<<bool(TRUE), bool(TRUE)>>)


(***************************************************************************)
(* Compiling and running one tree more than once.  runProgram compiles the *)
(* parsed Node and calls the Expr on a *Context; here Compile is called on *)
(* the same Node again, and every Expr it returned is called again, on a   *)
(* Context NewTopContext has just made or on one an earlier call was given.*)
(***************************************************************************)

MaxRuns == 4        \* calls of Compile and of the Exprs, together

\* one call: of Compile (closure is its own place in runs, ctx is nil) or
\* of the Expr the call at place closure returned
Run(op, closure, ctx, ret) == [op |-> op, closure |-> closure, ctx |-> ctx, ret |-> ret]

compilations == {i \in DOMAIN runs : runs[i].op = "Compile"}

invocations == {i \in DOMAIN runs : runs[i].op = "program"}

\* the calls of Compile that returned an Expr and no error
runnable == {i \in compilations : runs[i].ret.ok /\ runs[i].ret.err = NoErr}

TwiceInit ==
    /\ EvalInit
    /\ estate = "parsed"

\* program, err := compile.Compile(parsed), once more
compileAgain ==
    /\ estate # "closures"
    /\ Len(runs) < MaxRuns
    /\ LET c == Compile(enode)
       IN  /\ program' = c
           /\ runs' = Append(runs, Run("Compile", Len(runs) + 1, nil, c))
           /\ estate' = IF ~c.ok THEN "panic"
                        ELSE IF c.err # NoErr THEN "failed" ELSE "compiled"
    /\ UNCHANGED <<heap, called, enode, result, lexVars, parseVars, regionVars>>

\* ctx := compile.NewTopContext(); result, err := program(ctx)
invokeFresh ==
    /\ Len(runs) < MaxRuns
    /\ \E i \in runnable :
          LET r == invoke(runs[i].ret.expr, <<>>)
          IN  /\ heap' = NewContext(heap, nil)
              /\ result' = r
              /\ runs' = Append(runs, Run("program", i, Len(heap) + 1, r))
    /\ estate' = "invoked"
    /\ UNCHANGED <<called, enode, program, lexVars, parseVars, regionVars>>

\* result, err := program(ctx) on the Context of an earlier call
invokeSame ==
    /\ Len(runs) < MaxRuns
    /\ \E i \in runnable, k \in invocations :
          LET r == invoke(runs[i].ret.expr, <<>>)
          IN  /\ result' = r
              /\ runs' = Append(runs, Run("program", i, runs[k].ctx, r))
    /\ estate' = "invoked"
    /\ UNCHANGED <<heap, called, enode, program, lexVars, parseVars, regionVars>>

TwiceNext ==
    \/ compileAgain
    \/ invokeFresh
    \/ invokeSame

TwiceSpec == TwiceInit /\ [][TwiceNext]_vars

\* what a call came to: for Compile whether it returned and its error, for
\* an Expr its value and its error
outcome(r) ==
    IF r.op = "Compile"
    THEN IF r.ret.ok THEN <<"returned", r.ret.err>> ELSE <<"panic">>
    ELSE <<r.ret.value, r.ret.err>>

C31_ErrorTwice ==
    \E i, j \in invocations :
        /\ i < j
        /\ runs[i].closure = runs[j].closure
        /\ runs[i].ret.err # NoErr

\* the tree failed to compile twice
C31_FailsTwice ==
    \E i, j \in compilations :
        /\ i < j
        /\ runs[i].ret.ok
        /\ runs[i].ret.err # NoErr


(***************************************************************************)
(* C32: the one-line program x = 1 { x = x + 1 } x, run in a fresh root    *)
(* environment, is parsed as three statements, compiles, and its last      *)
(* statement, the lookup of x, yields 2.  Stated for EvalSpec on the tree  *)
(* Parse makes of the line.  It fails twice over: the line holds no        *)
(* separator, so it is one statement that does not reduce to one node and  *)
(* is dropped, leaving an empty program; and with the three parts          *)
(* separated, Compile has no CompilerFunc for the assignment.              *)
(***************************************************************************)
C32_BlockSharesScope ==
    LET parsed == Parsed(ProgBlockScope)
    IN  (parsed.ok /\ enode = parsed.node) =>
            /\ Len(enode.Children) = 3
            /\ estate \in {"parsed", "compiled", "invoked"}
            /\ invoked =>
                  /\ result.err = NoErr
                  /\ result.value = NewTuple(<<bool(TRUE), int64(2)>>)

\* the line ran: nothing was evaluated and the value of the program is nil
C32_NothingRuns ==
    /\ enode = Parsed(ProgBlockScope).node
    /\ Parsed(ProgBlockScope).log # {}
    /\ enode.Children = <<>>
    /\ invoked
    /\ result.value = NewTuple(<<bool(TRUE), Nil>>)

\* the three parts, separated, are three statements, and do not compile
C32_SeparatedFails ==
    /\ enode = Parsed(ProgBlockScopeSeparated).node
    /\ Len(enode.Children) = 3
    /\ estate = "failed"
    /\ program.err.msg = "cannot compile"
    /\ program.err.item.Type = "Assign"


(***************************************************************************)
(* C33: no reduction stage crashes on a malformed statement.  Whatever     *)
(* statement a stage of the pipeline is about to take, the stage returns a *)
(* node sequence: it does not index past the end of the statement or of a  *)
(* node's children.  Stated for ParseSpec.  It fails in                    *)
(* binaryOpsRightToLeft for a statement whose last node is an assignment   *)
(* operator, and in reassign for a compound assignment operator that was   *)
(* not folded.                                                             *)
(***************************************************************************)
C33_StagesDoNotCrash ==
    \A j \in 1..Len(Jobs) :
        pipe[j - 1] # <<>> => runJob(Jobs[j], pipe[j - 1][1]).ok

\* the stage of job j is about to take a statement it crashes on
crashes(j) ==
    /\ pstate = "running"
    /\ pipe[j - 1] # <<>>
    /\ ~runJob(Jobs[j], pipe[j - 1][1]).ok

\* x = : binaryOpsRightToLeft reads stmt[i+2] past the end
C33_AssignLast ==
    /\ crashes(7)
    /\ Jobs[7].f = "binaryOpsRightToLeft"
    /\ Len(pipe[6][1]) = 2
    /\ pipe[6][1][1].Item.Type = "Ident"
    /\ pipe[6][1][2].Item.Type = "Assign"

\* += a (as += 1) : reassign reads n.Children[0] of a node without children
C33_BareCompound ==
    /\ crashes(8)
    /\ Jobs[8].f = "reassign"
    /\ Len(pipe[7][1]) = 2
    /\ pipe[7][1][1].Item.Type = "PlusAssign"
    /\ pipe[7][1][1].Children = <<>>
    /\ pipe[7][1][2].Item.Type \in Literals


(***************************************************************************)
(* C34: after tree building no node of a compound assignment kind (+=, -=, *)
(* *=, /=, %=) is left anywhere in the tree: each has been rewritten to a  *)
(* plain assignment.  Stated for ParseSpec on every tree Parse returns.    *)
(* It fails for a compound assignment that is the right operand of another *)
(* assignment: reassign looks only at the nodes of the statement itself    *)
(* and rewrites only the first it finds.                                   *)
(***************************************************************************)
C34_NoCompoundLeft ==
    returned => \A n \in subnodes(root) : assignOp(n.Item.Type) = "Error"

\* a = b += c : the tree is (= a (+= b c))
C34_RightOperand ==
    /\ returned
    /\ Len(root.Children) = 1
    /\ root.Children[1].Item.Type = "Assign"
    /\ Len(root.Children[1].Children) = 2
    /\ root.Children[1].Children[2].Item.Type = "PlusAssign"
    /\ Len(root.Children[1].Children[2].Children) = 2

\* a += b += c : the tree is (= a (+ a (+= b c)))
C34_CompoundOfCompound ==
    /\ returned
    /\ Len(root.Children) = 1
    /\ root.Children[1].Item.Type = "Assign"
    /\ Len(root.Children[1].Children) = 2
    /\ root.Children[1].Children[2].Item.Type = "Plus"
    /\ Len(root.Children[1].Children[2].Children) = 2
    /\ root.Children[1].Children[2].Children[2].Item.Type = "PlusAssign"

\* a rewritten compound assignment keeps the line and the column of the
\* operator token in both new nodes (this part of the claim holds)
C34_PositionKept ==
    returned =>
        \A n \in subnodes(root) :
            (/\ n.Item.Type = "Assign"
             /\ n.Item.Value # <<"=">>) =>
                /\ Len(n.Children) = 2
                /\ n.Children[2].Item.Type = assignOp(itemType(n.Item.Value))
                /\ n.Children[2].Item.Line = n.Item.Line
                /\ n.Children[2].Item.Column = n.Item.Column
                /\ n.Children[2].Item.Value = n.Item.Value
                /\ \E i \in DOMAIN pitems :
                      pitems[i] = retyped(n.Item, itemType(n.Item.Value))


(***************************************************************************)
(* C35: a line comment does not swallow a statement boundary.  When a hash *)
(* or slash comment that ends with its line follows, on the same line, a   *)
(* token that can end a statement, the token after the comment, if it is   *)
(* a token of the next line, is a separator; and x #c<newline>y yields,    *)
(* comments filtered, identifier x, separator, identifier y, end-of-input. *)
(* Stated for Spec.  It fails: the comment collects its line break, so     *)
(* cleanSlate never sees it.                                               *)
(***************************************************************************)
isComment(i) == i.Type \in {"HashComment", "SlashComment"}

\* the comment tokens[k] ends with the line break, and the token before it
\* is on its line and can end a statement
closesStatementLine(k) ==
    /\ isComment(tokens[k])
    /\ tokens[k].Value[Len(tokens[k].Value)] \in {"\n", "\r"}
    /\ k > 1
    /\ tokens[k - 1].Type \in StatementEnders
    /\ tokens[k - 1].Line = tokens[k].Line

C35_CommentKeepsBoundary ==
    /\ \A k \in 1..(Len(tokens) - 1) :
          (closesStatementLine(k) /\ tokens[k + 1].Type \notin {"EOF", "Error"}) =>
              tokens[k + 1].Type = "Separator"
    /\ (input = ProgCommentAfterX /\ ~readErr /\ complete) =>
          TypesOf(noComment(tokens)) = <<"Ident", "Separator", "Ident", "EOF">>

\* x #c<newline>y is read to its end without a separator
C35_Swallowed ==
    /\ input = ProgCommentAfterX
    /\ ~readErr
    /\ complete
    /\ TypesOf(tokens) = <<"Ident", "HashComment", "Ident", "EOF">>
    /\ tokens[2].Value = <<"#", "c", "\n">>
    /\ tokens[3].Line = 2


(***************************************************************************)
(* Part 4: one bracket stage, goroutine by goroutine.  bracify and         *)
(* parenthify are the same code over two pairs of types.  The stage        *)
(* goroutine ranges over in; at an open bracket it makes the channel sub,  *)
(* starts the sub-reader goroutine, which also ranges over in, and calls   *)
(* parseItems(n.Item, sub), which returns once sub is closed.  Every       *)
(* channel is unbuffered: a send and its receive are one step, taken when  *)
(* the receiver is at its receive.  The producer of in is the stage before *)
(* (nodify, or parenthify for bracify), the receiver of out the stage      *)
(* after; the receiver of sub is the pipeline inside parseItems, whose     *)
(* result is the operator parseItems of Part 2 on what it has received.    *)
(***************************************************************************)

MaxRegion == 5      \* longest stream of nodes given to a bracket stage

Stages == {"bracify", "parenthify"}

openType(f) == IF f = "bracify" THEN "LeftBrace" ELSE "LeftParen"

closeType(f) == IF f = "bracify" THEN "RightBrace" ELSE "RightParen"

openMsg(f) ==
    IF f = "bracify" THEN "open brace without close" ELSE "open paren without close"

RegionAlphabet(f) ==
    {<<"a">>, <<"=">>}
        \cup (IF f = "bracify" THEN {<<"{">>, <<"}">>} ELSE {<<"(">>, <<")">>})

\* the goroutine of the stage f at pc, holding n
Stage(f, pc, n) == [f |-> f, pc |-> pc, n |-> n]

\* the sub-reader at pc, with its locals n and depth and its argument
SubReader(pc, n, depth, openBrace) ==
    [pc |-> pc, n |-> n, depth |-> depth, openBrace |-> openBrace]

NoSubReader == SubReader("none", <<>>, 0, <<>>)

\* a receive from in
Received(by, n) == [by |-> by, n |-> n]

\* the stream of a stage: the items of an input, with the EOF that ends the
\* stream out of the lexer or, for a stage inside a region, without it
RegionInit ==
    /\ input = <<>>
    /\ readErr = FALSE
    /\ pos = 0
    /\ backupBuffer = <<>>
    /\ current = <<>>
    /\ curLine = 1
    /\ curCol = 1
    /\ items = <<>>
    /\ lastItem = ZeroItem
    /\ state = "closed"
    /\ gotPoint = FALSE
    /\ tokens = <<>>
    /\ pitems = <<>>
    /\ nodes = <<>>
    /\ pipe = <<>>
    /\ stmts = <<>>
    /\ plog = {}
    /\ pstate = "idle"
    /\ ast = <<>>
    /\ heap = <<>>
    /\ called = <<>>
    /\ enode = <<>>
    /\ program = <<>>
    /\ result = <<>>
    /\ runs = <<>>
    /\ estate = "idle"
    /\ \E f \in Stages :
          /\ stage = Stage(f, "range", <<>>)
          /\ \E texts \in SeqsUpTo(RegionAlphabet(f), MaxRegion), inner \in BOOLEAN :
                LET ns == nodify(Items(texts))
                IN  cin = IF inner THEN SubSeq(ns, 1, Len(ns) - 1) ELSE ns
    /\ csub = <<>>
    /\ cout = <<>>
    /\ closed = [in |-> 0, sub |-> 0, out |-> 0]
    /\ subreader = NoSubReader
    /\ received = <<>>
    /\ faults = {}

\* the panic of a send on c, if c is closed
sendFault(c) == IF closed[c] > 0 THEN {<<"send on closed channel", c>>} ELSE {}

\* the panic of close(c), if c is closed
closeFault(c) == IF closed[c] > 0 THEN {<<"close of closed channel", c>>} ELSE {}

stageAtOpenGoesOn(f, n) == IF Match(n.Item.Type, {openType(f)}) THEN "range" ELSE "send"

\* where the stage is after a receive: at out <- n, or, at an open bracket,
\* after the go statement, in parseItems(n.Item, sub)
stageAt(f, n) == IF Match(n.Item.Type, {openType(f)}) THEN "parseItems" ELSE "send"

\* the producer of in has sent everything: its deferred close(out)
producerClose ==
    /\ stage.pc # "panic"
    /\ cin = <<>>
    /\ closed.in = 0
    /\ closed' = [closed EXCEPT !.in = 1]
    /\ UNCHANGED <<cin, csub, cout, stage, subreader, received, faults,
                   lexVars, parseVars, evalVars>>

\* for n := range in, in the stage: the receive and what follows up to the
\* next channel operation; at an open bracket, sub := make(chan Node) and
\* go func(openBrace Node) {...}(n)
stageReceive ==
    /\ stage.pc = "range"
    /\ cin # <<>>
    /\ LET n == Head(cin)
       IN  /\ cin' = Tail(cin)
           /\ received' = Append(received, Received("stage", n))
           /\ stage' = Stage(stage.f, stageAt(stage.f, n), <<n>>)
           /\ IF Match(n.Item.Type, {openType(stage.f)})
              THEN /\ csub' = <<>>
                   /\ closed' = [closed EXCEPT !.sub = 0]
                   /\ subreader' = SubReader("range", <<>>, 1, <<n>>)
              ELSE UNCHANGED <<csub, closed, subreader>>
    /\ UNCHANGED <<cout, faults, lexVars, parseVars, evalVars>>

\* out <- n, and out <- the Node parseItems returned
stageSend ==
    /\ stage.pc = "send"
    /\ cout' = Append(cout, stage.n[1])
    /\ faults' = faults \cup sendFault("out")
    /\ stage' = Stage(stage.f, "range", <<>>)
    /\ UNCHANGED <<cin, csub, closed, subreader, received, lexVars, parseVars, evalVars>>

\* parseItems(n.Item, sub) returns: sub is closed, and its pipeline has
\* received all that was sent
stageParseItems ==
    /\ stage.pc = "parseItems"
    /\ closed.sub > 0
    /\ LET r == parseItems(stage.n[1].Item, csub)
       IN  /\ stage' = IF r.ok THEN Stage(stage.f, "send", <<r.node>>)
                       ELSE Stage(stage.f, "panic", <<>>)
           /\ faults' = IF r.ok THEN faults ELSE faults \cup {<<"index out of range", "sub">>}
           /\ plog' = plog \cup r.log
    /\ UNCHANGED <<cin, csub, cout, closed, subreader, received,
                   pitems, nodes, pipe, stmts, pstate, ast, lexVars, evalVars>>

\* in is closed: the loop of the stage ends, and the deferred close(out)
stageClose ==
    /\ stage.pc = "range"
    /\ cin = <<>>
    /\ closed.in > 0
    /\ stage' = Stage(stage.f, "closed", <<>>)
    /\ faults' = faults \cup closeFault("out")
    /\ closed' = [closed EXCEPT !.out = @ + 1]
    /\ UNCHANGED <<cin, csub, cout, subreader, received, lexVars, parseVars, evalVars>>

\* for n := range in, in the sub-reader: the receive, depth, and the switch;
\* a return runs the deferred close(sub)
readerReceive ==
    /\ subreader.pc = "range"
    /\ stage.pc # "panic"
    /\ cin # <<>>
    /\ LET n == Head(cin)
           depth == subreader.depth + adjustDepth(n, openType(stage.f), closeType(stage.f))
           unclosed == depth # 0 /\ Match(n.Item.Type, {"EOF"})
           returns == depth = 0 \/ unclosed
       IN  /\ cin' = Tail(cin)
           /\ received' = Append(received, Received("sub-reader", n))
           /\ subreader' = IF returns
                           THEN SubReader("exited", <<>>, depth, subreader.openBrace)
                           ELSE SubReader("send", <<n>>, depth, subreader.openBrace)
           /\ closed' = IF returns THEN [closed EXCEPT !.sub = @ + 1] ELSE closed
           /\ faults' = IF returns THEN faults \cup closeFault("sub") ELSE faults
           /\ plog' = IF unclosed
                      THEN plog \cup {Report(openMsg(stage.f), subreader.openBrace[1].Item)}
                      ELSE plog
    /\ UNCHANGED <<csub, cout, stage,
                   pitems, nodes, pipe, stmts, pstate, ast, lexVars, evalVars>>

\* sub <- n
readerSend ==
    /\ subreader.pc = "send"
    /\ stage.pc # "panic"
    /\ csub' = Append(csub, subreader.n[1])
    /\ faults' = faults \cup sendFault("sub")
    /\ subreader' = [subreader EXCEPT !.pc = "range", !.n = <<>>]
    /\ UNCHANGED <<cin, cout, closed, stage, received, lexVars, parseVars, evalVars>>

\* in is closed: the loop of the sub-reader ends, and the deferred close(sub)
readerClose ==
    /\ subreader.pc = "range"
    /\ stage.pc # "panic"
    /\ cin = <<>>
    /\ closed.in > 0
    /\ subreader' = [subreader EXCEPT !.pc = "exited"]
    /\ faults' = faults \cup closeFault("sub")
    /\ closed' = [closed EXCEPT !.sub = @ + 1]
    /\ UNCHANGED <<cin, csub, cout, stage, received, lexVars, parseVars, evalVars>>

RegionNext ==
    \/ producerClose
    \/ stageReceive
    \/ stageSend
    \/ stageParseItems
    \/ stageClose
    \/ readerReceive
    \/ readerSend
    \/ readerClose

RegionSpec == RegionInit /\ [][RegionNext]_vars

(***************************************************************************)
(* Properties of a bracket stage.                                          *)
(***************************************************************************)

\* the sub-reader has been started and has not returned
alive == subreader.pc \in {"range", "send"}

\* the stream the stage was given: what has been received, and the rest
stream == [k \in 1..Len(received) |-> received[k].n] \o cin

\* who is to receive the k-th node of the stream s of the stage f, reading
\* s from place i outside any region
RECURSIVE owner(_, _, _, _)
owner(f, s, i, k) ==
    IF k = i THEN "stage"
    ELSE IF ~Match(s[i].Item.Type, {openType(f)}) THEN owner(f, s, i + 1, k)
    ELSE LET e == regionEnd(s, i + 1, 1, openType(f), closeType(f))
         IN  IF k <= e THEN "sub-reader" ELSE owner(f, s, e + 1, k)

(***************************************************************************)
(* C36: while a bracketed region is being resolved only the sub-reader     *)
(* receives from the shared channel in: from the go statement until the    *)
(* sub-reader has returned the stage is inside parseItems and at no        *)
(* receive.  Under every interleaving the nodes of a region, its close     *)
(* included (or the EOF that ends an unclosed one), are received by the    *)
(* sub-reader and every other node by the stage; so what the stage has     *)
(* sent on when it ends is what reading the stream in order gives: the     *)
(* nodes outside the regions, and one Node for each region.                *)
(***************************************************************************)
C36_OnlySubReaderReceives ==
    /\ alive => stage.pc = "parseItems"
    /\ stage.pc \in {"range", "send"} => subreader.pc \in {"none", "exited"}
    /\ \A k \in 1..Len(received) : received[k].by = owner(stage.f, stream, 1, k)
    /\ stage.pc = "closed" =>
          LET seq == subtree(stream, openType(stage.f), closeType(stage.f), openMsg(stage.f))
          IN  /\ seq.ok
              /\ cout = seq.out
              /\ plog = seq.log

\* a region with a region inside it has been resolved, and a node after its
\* close has gone to the enclosing stream
C36_Witness ==
    /\ stage.pc = "closed"
    /\ Len(received) = 5
    /\ received[1].by = "stage"
    /\ received[2].n.Item.Type = openType(stage.f)
    /\ received[3].n.Item.Type = closeType(stage.f)
    /\ received[4].by = "sub-reader"
    /\ received[4].n.Item.Type = closeType(stage.f)
    /\ received[5].by = "stage"
    /\ received[5].n.Item.Type = "Ident"
    /\ Len(cout) = 2

\* the sub-reader is at its receive while nodes are still to come
C36_SubReaderReading ==
    /\ alive
    /\ subreader.pc = "range"
    /\ subreader.depth = 2
    /\ Len(cin) >= 2


(***************************************************************************)
(* C37: for every finite token stream that ends with the end-of-input      *)
(* token, Parse returns: every stage goroutine comes to its end, every     *)
(* channel is closed once, by its producer, nothing is sent on a closed    *)
(* channel and no goroutine stays blocked.  Stated for ParseSpec as: the   *)
(* parse never ends but by returning.  It fails for a stream with a        *)
(* statement on which a reduction stage indexes out of range: the panic of *)
(* that goroutine ends the program before Parse returns.                   *)
(***************************************************************************)
C37_ParseReturns == ended => returned

\* the parse has ended without returning: a stage goroutine has panicked
\* with statements still in the pipeline or still to be read
C37_Crashed ==
    /\ pstate = "panic"
    /\ pitems[Len(pitems)].Type = "EOF"
    /\ \/ slice(nodes) # <<>>
       \/ \E j \in 0..Len(Jobs) : pipe[j] # <<>>

\* what is left to do: the nodes slicify has still to read, and for each
\* statement in the pipeline the stages it has still to pass
todo ==
    (IF pstate = "start" THEN 1 ELSE 0)
        + (IF pstate \in {"start", "running"} THEN 1 ELSE 0)
        + Len(nodes) * (Len(Jobs) + 2)
        + Cardinality({<<j, k>> \in (0..Len(Jobs)) \X (0..Len(Jobs)) :
                          pipe # <<>> /\ pipe[j] # <<>> /\ k >= j})

\* until the parse has ended some goroutine can take a step: none is
\* blocked for good
C37_NoneBlocked ==
    pstate = "running" =>
        \/ pipe[0] = <<>> /\ slice(nodes) # <<>>
        \/ \E j \in 1..Len(Jobs) : pipe[j - 1] # <<>> /\ pipe[j] = <<>>
        \/ pipe[Len(Jobs)] # <<>>
        \/ slice(nodes) = <<>> /\ \A j \in 0..Len(Jobs) : pipe[j] = <<>>

\* every step but the first leaves less to do, so the steps come to an end
C37_StepsEnd == [][pstate # "start" => (ended' \/ todo' < todo)]_vars

\* in a bracket stage no channel is closed twice, nothing is sent on a
\* closed channel, out is closed only by the stage and only when the
\* sub-reader has returned and closed its sub; the one panic there is, is
\* that of a reduction stage inside parseItems
C37_ChannelsClosedOnce ==
    /\ \A c \in {"in", "sub", "out"} : closed[c] <= 1
    /\ faults \subseteq {<<"index out of range", "sub">>}
    /\ faults # {} <=> stage.pc = "panic"
    /\ closed.out = 1 <=> stage.pc = "closed"
    /\ stage.pc = "closed" =>
          /\ closed.in = 1
          /\ cin = <<>>
          /\ subreader.pc \in {"none", "exited"}
          /\ subreader.pc = "exited" => closed.sub = 1

\* until a bracket stage has closed out, or panicked, one of its
\* goroutines, or its producer, can take a step
C37_StageNotBlocked ==
    stage.pc \notin {"closed", "panic"} =>
        \/ cin = <<>> /\ closed.in = 0
        \/ stage.pc = "range" /\ (cin # <<>> \/ closed.in > 0)
        \/ stage.pc = "send"
        \/ stage.pc = "parseItems" /\ closed.sub > 0
        \/ subreader.pc = "range" /\ (cin # <<>> \/ closed.in > 0)
        \/ subreader.pc = "send"


(***************************************************************************)
(* C38: the pushback buffer never holds more than one rune, so backup      *)
(* never blocks on its two slots, and next returns the pushed-back rune    *)
(* before it reads new input: every step of the tokenizer leaves the       *)
(* buffer with at most one rune, and the runes still to be read after the  *)
(* step (the buffer, then the rest of the input) are what was still to be  *)
(* read before it with some runes taken from the front: no rune comes      *)
(* back out of order or twice, none is skipped.  A pushed-back end of      *)
(* input is there only when the input is used up.  Stated for Spec.        *)
(***************************************************************************)
\* the runes next() will return from here on, up to the end of the input
pending ==
    SelectSeq([k \in 1..Len(backupBuffer) |-> backupBuffer[k].val], LAMBDA r : r # eof)
        \o SubSeq(input, pos + 1, Len(input))

isSuffix(s, t) == Len(s) <= Len(t) /\ s = SubSeq(t, Len(t) - Len(s) + 1, Len(t))

C38_OneRunePushback ==
    [][/\ Len(backupBuffer') <= 1
       /\ isSuffix(pending', pending)
       /\ \A k \in 1..Len(backupBuffer') :
             backupBuffer'[k].val = eof => pos' = Len(input)]_vars

\* after a token the state function has pushed back the rune that ended
\* it, cleanSlate is about to read that rune, and new input is still to come
C38_Witness ==
    /\ state = "cleanSlate"
    /\ Len(backupBuffer) = 1
    /\ backupBuffer[1].val = input[pos]
    /\ pos < Len(input)
    /\ tokens # <<>>
    /\ items = <<>>

\* cleanSlate has peeked: the buffer holds the rune after a one-rune operator
C38_Peeked ==
    /\ state = "cleanSlate"
    /\ items # <<>>
    /\ items[1].Type = "Plus"
    /\ Len(backupBuffer) = 1
    /\ backupBuffer[1].val = eof
    /\ pos = Len(input)

(***************************************************************************)
(* C39: every emitted token records the position of the first rune of its *)
(* own text: its line and column are the position reached by advancing    *)
(* from line 1 column 1 over exactly the runes of the input consumed       *)
(* before the token, each counted once and skipped whitespace included,    *)
(* and line numbers never decrease along the token stream.                 *)
(* Stated on the step that emits: the token's text begins with what the    *)
(* lexer had collected before the step, so the runes consumed before the   *)
(* token are the input without what was still to be read and without what  *)
(* was collected.                                                          *)
(***************************************************************************)
\* the runes of s that were read from the input (the rune -1 is not one)
fromInput(s) == SelectSeq(s, LAMBDA r : r # RuneError)

isPrefix(s, t) == Len(s) <= Len(t) /\ s = SubSeq(t, 1, Len(s))

consumedBefore(text, togo) ==
    SubSeq(input, 1, Len(input) - Len(togo) - Len(fromInput(text)))

recordsOwnPosition(item, text, togo) ==
    LET at == advancePos(1, 1, consumedBefore(text, togo))
    IN  /\ isPrefix(text, item.Value)
        /\ item.Line = at.line
        /\ item.Column = at.col

linesAscend ==
    \A k \in 1..(Len(tokens) - 1) : tokens[k].Line <= tokens[k + 1].Line

C39_TokenPositions ==
    [][/\ (items = <<>> /\ items' # <<>>)
            => recordsOwnPosition(items'[1], current, pending)
       /\ linesAscend']_vars

\* a comment that ends the input collects the rune -1 and counts a column
\* for it: the EOF token after "#" sits at column 3 with one rune consumed
C39_EndAfterComment ==
    /\ input = <<"#">>
    /\ Len(tokens) = 2
    /\ tokens[1].Type = "HashComment"
    /\ tokens[1].Value = <<"#", RuneError>>
    /\ tokens[2].Type = "EOF"
    /\ tokens[2].Line = 1
    /\ tokens[2].Column = 3

\* the rune that ends a number badly is read and never counted: the EOF
\* token after "1a" sits at column 2 with two runes consumed
C39_EndAfterError ==
    /\ input = <<"1", "a">>
    /\ Len(tokens) = 2
    /\ tokens[1].Type = "Error"
    /\ tokens[2].Type = "EOF"
    /\ tokens[2].Line = 1
    /\ tokens[2].Column = 2

\* the tokens that carry input text (neither Error nor EOF) do record the
\* position of their first rune
C39_TextTokenPositions ==
    [][(items = <<>> /\ items' # <<>> /\ items'[1].Type \notin {"Error", "EOF"})
            => recordsOwnPosition(items'[1], current, pending)]_vars

C39_LinesAscend == [][linesAscend']_vars

====
